---- MODULE Spec2Model ----
(***************************************************************************)
(* Validation dependencies of fastapi-assets: CookieAssert, the two        *)
(* HeaderValidator implementations, PathValidator and FileValidator.       *)
(*                                                                         *)
(* One validator instance is constructed (Init), then invoked once per     *)
(* request.  An invocation is one action: it runs the whole handler on the *)
(* raw value and records what the caller observes (returned value or the   *)
(* exception that escapes), together with the rules that were evaluated    *)
(* and the number of calls made to the custom predicate.                   *)
(***************************************************************************)
EXTENDS Integers, Sequences, FiniteSets, TLC

VARIABLES kind,   \* class of the instance
          ctor,   \* arguments the constructor was called with
          self,   \* fields of the instance
          req,    \* raw input of the invocation in progress
          out     \* what the invocation produced

vars == <<kind, ctor, self, req, out>>

-----------------------------------------------------------------------------
(* Python values.  One record shape so that any two values can be compared. *)

PyNone == [t |-> "None", s |-> "", n |-> 0]
Ellipsis == [t |-> "Ellipsis", s |-> "", n |-> 0]
\* an argument the caller left out
Unset == [t |-> "Unset", s |-> "", n |-> 0]
ArgOr(arg, dflt) == IF arg = Unset THEN dflt ELSE arg
PyStr(x) == [t |-> "str", s |-> x, n |-> 0]
PyInt(k) == [t |-> "int", s |-> "", n |-> k]
PyFloat(k) == [t |-> "float", s |-> "", n |-> k]
PyBool(b) == [t |-> "bool", s |-> "", n |-> IF b THEN 1 ELSE 0]

IsNumber(v) == v.t \in {"int", "float", "bool"}

\* bool(v)
Truthy(v) ==
    CASE v.t = "None" -> FALSE
      [] v.t = "str" -> v.s # ""
      [] v.t \in {"int", "float", "bool"} -> v.n # 0
      [] OTHER -> TRUE

\* a or b
PyOr(a, b) == IF Truthy(a) THEN a ELSE b

DigitChars == <<"0", "1", "2", "3", "4", "5", "6", "7", "8", "9">>

RECURSIVE NatToStr(_)
NatToStr(k) == IF k < 10 THEN DigitChars[k + 1]
               ELSE NatToStr(k \div 10) \o DigitChars[(k % 10) + 1]

IntToStr(k) == IF k < 0 THEN "-" \o NatToStr(0 - k) ELSE NatToStr(k)

\* str(v)
StrOf(v) ==
    CASE v.t = "None" -> "None"
      [] v.t = "Ellipsis" -> "Ellipsis"
      [] v.t = "str" -> v.s
      [] v.t = "int" -> IntToStr(v.n)
      [] v.t = "float" -> IntToStr(v.n) \o ".0"
      [] v.t = "bool" -> IF v.n = 1 THEN "True" ELSE "False"

-----------------------------------------------------------------------------
(* Raw text values: every string over Alphabet of length at most MaxLen.    *)

MaxLen == 2

Alphabet == {"a", "3", "-"}

RECURSIVE StringsUpTo(_)
StringsUpTo(k) ==
    IF k = 0 THEN {""}
    ELSE LET S == StringsUpTo(k - 1) IN S \cup {s \o c : s \in S, c \in Alphabet}

Texts == StringsUpTo(MaxLen)

CharAt(s, i) == SubSeq(s, i, i)

IsDigit(c) == \E i \in 1..10 : DigitChars[i] = c

DigitVal(c) == (CHOOSE i \in 1..10 : DigitChars[i] = c) - 1

RECURSIVE DigitsToNat(_)
DigitsToNat(s) ==
    IF Len(s) = 0 THEN 0
    ELSE 10 * DigitsToNat(SubSeq(s, 1, Len(s) - 1)) + DigitVal(CharAt(s, Len(s)))

AllDigits(s) == Len(s) > 0 /\ \A i \in 1..Len(s) : IsDigit(CharAt(s, i))

\* float(s) succeeds: an optional sign followed by digits
FloatParses(s) ==
    \/ AllDigits(s)
    \/ Len(s) > 1 /\ CharAt(s, 1) = "-" /\ AllDigits(SubSeq(s, 2, Len(s)))

\* float(s)
FloatOf(s) ==
    IF CharAt(s, 1) = "-" THEN 0 - DigitsToNat(SubSeq(s, 2, Len(s)))
    ELSE DigitsToNat(s)

-----------------------------------------------------------------------------
(* Regular expressions of the shape  ^? [cls]{lo,hi} $?                     *)

\* hi < 0 stands for an unbounded repetition
Regex(src, bol, cls, lo, hi, eol) ==
    [src |-> src, bol |-> bol, cls |-> cls, lo |-> lo, hi |-> hi, eol |-> eol]

NoRegex == Regex("", FALSE, {}, 0, 0, FALSE)

Letters == {"a"}
Digits == {"3"}
HexChars == {"a", "3"}

\* the pattern matches s[i .. i+k-1] for some k
MatchesAt(re, s, i) ==
    /\ re.bol => i = 1
    /\ \E k \in 0..(Len(s) - i + 1) :
          /\ re.lo <= k /\ (re.hi < 0 \/ k <= re.hi)
          /\ \A j \in i..(i + k - 1) : CharAt(s, j) \in re.cls
          /\ re.eol => i + k - 1 = Len(s)

\* re.match(s) is not None
ReMatch(re, s) == MatchesAt(re, s, 1)

\* re.search(s) is not None
ReSearch(re, s) == \E i \in 1..(Len(s) + 1) : MatchesAt(re, s, i)

-----------------------------------------------------------------------------
(* Exceptions and outcomes                                                  *)

\* custom predicates: what the callable does with the value it is given
NoFn == [beh |-> "none", text |-> ""]
FnTrue == [beh |-> "true", text |-> ""]
FnFalse == [beh |-> "false", text |-> ""]
FnRaise(text) == [beh |-> "raise", text |-> text]

\* result of one check: it returns ret, or raises an exception e with
\* e.detail, e.status_code and str(e) = text
Passed == [raised |-> FALSE, type |-> "", detail |-> PyNone, status_code |-> PyNone,
           text |-> "", ret |-> PyNone]

Returns(v) == [Passed EXCEPT !.ret = v]

Raises(type, detail, status_code, text) ==
    [raised |-> TRUE, type |-> type, detail |-> detail, status_code |-> status_code,
     text |-> text, ret |-> PyNone]

\* what reaches the caller
Returned(v, trace, spy) ==
    [exc |-> "", status |-> 0, detail |-> "", value |-> v, trace |-> trace, spy |-> spy]

Raised(type, status, detail, trace, spy) ==
    [exc |-> type, status |-> status, detail |-> detail, value |-> PyNone,
     trace |-> trace, spy |-> spy]

NoCall == [exc |-> "idle", status |-> 0, detail |-> "", value |-> PyNone,
           trace |-> <<>>, spy |-> 0]

NoRequest == [value |-> PyNone, fault |-> "idle"]

\* str(e) of a starlette HTTPException
StrHTTPException(status, detail) == IntToStr(status) \o ": " \o detail

\* index of the first failing check of a chain, 0 when every check passes
FirstFailure(results) ==
    IF \E i \in 1..Len(results) : results[i].raised
    THEN CHOOSE i \in 1..Len(results) :
            /\ results[i].raised
            /\ \A j \in 1..(i - 1) : ~results[j].raised
    ELSE 0

-----------------------------------------------------------------------------
(* validators/cookie_validator.py                                           *)

\* ValidationError of the cookie module: super().__init__(detail) makes
\* str(e) the detail
CookieValidationError(detail, status_code) ==
    Raises("ValidationError", detail, status_code, StrOf(detail))

\* PRE_BUILT_PATTERNS; no text shorter than the shortest match of a format
\* matches it, which is all that texts of a few characters can observe
PRE_BUILT_PATTERNS ==
    [session_id |-> Regex("session_id", TRUE, {"a", "3", "-"}, 16, 128, TRUE),
     uuid4 |-> Regex("uuid4", TRUE, HexChars \cup {"-"}, 36, 36, TRUE)]

CookieDefaults ==
    [on_required_error_detail |-> PyStr("Cookie is required."),
     on_numeric_error_detail |-> PyStr("Cookie value must be a number."),
     on_comparison_error_detail |-> PyStr("Cookie value fails comparison rules."),
     on_length_error_detail |-> PyStr("Cookie value fails length constraints."),
     on_pattern_error_detail |-> PyStr("Cookie has an invalid format."),
     on_validator_error_detail |-> PyStr("Cookie failed custom validation."),
     status_code |-> PyInt(400),
     error_detail |-> PyStr("Cookie validation failed.")]

\* CookieAssert.__init__ (a call that raises ValueError builds no instance)
CookieAssert_init(a) ==
    LET default == ArgOr(a.default, Ellipsis)
        required == IF a.required = Unset THEN TRUE ELSE Truthy(a.required)
        final_regex_str == IF a.format # "" THEN PRE_BUILT_PATTERNS[a.format] ELSE a.pattern
    IN [status_code |-> ArgOr(a.status_code, CookieDefaults.status_code),
        error_detail |-> ArgOr(a.error_detail, CookieDefaults.error_detail),
        alias |-> a.alias,
        default |-> default,
        is_required |-> IF default = Ellipsis THEN required
                        ELSE (default = PyNone /\ required),
        gt |-> a.gt, ge |-> a.ge, lt |-> a.lt, le |-> a.le,
        min_length |-> a.min_length, max_length |-> a.max_length,
        custom_validator |-> a.validator,
        err_required |-> ArgOr(a.on_required_error_detail,
                               CookieDefaults.on_required_error_detail),
        err_numeric |-> ArgOr(a.on_numeric_error_detail,
                              CookieDefaults.on_numeric_error_detail),
        err_compare |-> ArgOr(a.on_comparison_error_detail,
                              CookieDefaults.on_comparison_error_detail),
        err_length |-> ArgOr(a.on_length_error_detail,
                             CookieDefaults.on_length_error_detail),
        err_pattern |-> ArgOr(a.on_pattern_error_detail,
                              CookieDefaults.on_pattern_error_detail),
        err_validator |-> ArgOr(a.on_validator_error_detail,
                                CookieDefaults.on_validator_error_detail),
        final_regex |-> final_regex_str]

\* BaseValidator._raise_error of the cookie module: the HTTPException raised
Cookie_raise_error(slf, detail, status_code) ==
    [status |-> PyOr(status_code, slf.status_code).n,
     detail |-> StrOf(PyOr(detail, slf.error_detail))]

\* a text that is not a number is let through as a string
CookieAssert_validate_numeric_Lenient(slf, value) ==
    IF \E v \in {slf.gt, slf.ge, slf.lt, slf.le} : v # PyNone
    THEN IF FloatParses(value.s) THEN Returns(PyFloat(FloatOf(value.s)))
         ELSE Returns(PyNone)
    ELSE Returns(PyNone)

CookieAssert_validate_numeric(slf, value) ==
    IF \E v \in {slf.gt, slf.ge, slf.lt, slf.le} : v # PyNone
    THEN IF FloatParses(value.s) THEN Returns(PyFloat(FloatOf(value.s)))
         ELSE CookieValidationError(slf.err_numeric, PyInt(400))
    ELSE Returns(PyNone)

CookieAssert_validate_comparison(slf, value) ==
    IF slf.gt # PyNone /\ ~(value.n > slf.gt.n)
    THEN CookieValidationError(slf.err_compare, PyInt(400))
    ELSE IF slf.ge # PyNone /\ ~(value.n >= slf.ge.n)
    THEN CookieValidationError(slf.err_compare, PyInt(400))
    ELSE IF slf.lt # PyNone /\ ~(value.n < slf.lt.n)
    THEN CookieValidationError(slf.err_compare, PyInt(400))
    ELSE IF slf.le # PyNone /\ ~(value.n <= slf.le.n)
    THEN CookieValidationError(slf.err_compare, PyInt(400))
    ELSE Passed

CookieAssert_validate_length(slf, value) ==
    LET value_len == Len(value.s)
    IN IF slf.min_length # PyNone /\ value_len < slf.min_length.n
       THEN CookieValidationError(slf.err_length, PyInt(400))
       ELSE IF slf.max_length # PyNone /\ value_len > slf.max_length.n
       THEN CookieValidationError(slf.err_length, PyInt(400))
       ELSE Passed

CookieAssert_validate_pattern(slf, value) ==
    IF slf.final_regex # NoRegex /\ ~ReSearch(slf.final_regex, value.s)
    THEN CookieValidationError(slf.err_pattern, PyInt(400))
    ELSE Passed

\* the body of the try block of _validate_custom
CookieAssert_validate_custom_try(slf, value) ==
    CASE slf.custom_validator.beh = "raise" ->
            Raises("Exception", PyNone, PyNone, slf.custom_validator.text)
      [] slf.custom_validator.beh = "false" ->
            CookieValidationError(slf.err_validator, PyInt(400))
      [] OTHER -> Passed

\* _validate_custom: `except Exception` also catches the ValidationError that
\* the try block raises itself
CookieAssert_validate_custom(slf, value) ==
    IF slf.custom_validator = NoFn THEN Passed
    ELSE LET r == CookieAssert_validate_custom_try(slf, value)
         IN IF r.raised
            THEN CookieValidationError(
                     PyStr(StrOf(slf.err_validator) \o ": " \o r.text), PyInt(400))
            ELSE Passed

\* the pattern check moved to the front
CookieRuleOrder_PatternFirst == <<"pattern", "length", "numeric", "comparison", "custom">>

\* the order of the checks in the try block of __call__
CookieRuleOrder == <<"numeric", "comparison", "length", "pattern", "custom">>

CookieAssert_check(slf, name, cookie_value, numeric_value) ==
    CASE name = "numeric" -> CookieAssert_validate_numeric(slf, cookie_value)
      [] name = "comparison" ->
            IF numeric_value # PyNone
            THEN CookieAssert_validate_comparison(slf, numeric_value)
            ELSE Passed
      [] name = "length" -> CookieAssert_validate_length(slf, cookie_value)
      [] name = "pattern" -> CookieAssert_validate_pattern(slf, cookie_value)
      [] name = "custom" -> CookieAssert_validate_custom(slf, cookie_value)

\* the except clauses of __call__ applied to what the try block raised
CookieAssert_except(slf, e, trace, spy) ==
    IF e.type = "ValidationError"
    THEN LET h == Cookie_raise_error(slf, PyStr(StrOf(e.detail)), e.status_code)
         IN Raised("HTTPException", h.status, h.detail, trace, spy)
    ELSE LET h == Cookie_raise_error(slf,
                    PyStr("An unexpected error occurred during cookie validation: "
                          \o e.text), PyInt(500))
         IN Raised("HTTPException", h.status, h.detail, trace, spy)

\* the source writes CookieAssert and alias between backquotes
AliasMessage ==
    "Internal Server Error: 'CookieAssert' must be initialized with an 'alias'."

\* the alias is never checked
CookieAssert_call_NoAliasCheck(slf, request) ==
    IF FALSE
    THEN LET h == Cookie_raise_error(slf, PyStr(AliasMessage), PyInt(500))
         IN Raised("HTTPException", h.status, h.detail, <<>>, 0)
    ELSE IF request.fault # ""
    THEN Raised("Exception", 0, request.fault, <<>>, 0)
    ELSE LET cookie_value == request.value
         IN IF cookie_value = PyNone
            THEN IF slf.is_required
                 THEN LET h == Cookie_raise_error(slf, slf.err_required, PyNone)
                      IN CookieAssert_except(slf,
                            Raises("HTTPException", PyStr(h.detail), PyInt(h.status),
                                   StrHTTPException(h.status, h.detail)),
                            <<"required">>, 0)
                 ELSE Returned(IF slf.default # Ellipsis THEN slf.default ELSE PyNone,
                               <<"required">>, 0)
            ELSE LET num == CookieAssert_validate_numeric(slf, cookie_value)
                     numeric_value == num.ret
                     results == [i \in 1..Len(CookieRuleOrder) |->
                                    CookieAssert_check(slf, CookieRuleOrder[i],
                                                       cookie_value, numeric_value)]
                     k == FirstFailure(results)
                     last == IF k = 0 THEN Len(CookieRuleOrder) ELSE k
                     ran == SubSeq(CookieRuleOrder, 1, last)
                     called(name) == name # "comparison" \/ numeric_value # PyNone
                     trace == <<"required">> \o SelectSeq(ran, called)
                     spy == IF slf.custom_validator # NoFn
                               /\ \E i \in 1..last : CookieRuleOrder[i] = "custom"
                            THEN 1 ELSE 0
                 IN IF k # 0
                    THEN CookieAssert_except(slf, results[k], trace, spy)
                    ELSE Returned(IF numeric_value # PyNone THEN numeric_value
                                  ELSE cookie_value, trace, spy)

\* CookieAssert.__call__
CookieAssert_call(slf, request) ==
    IF slf.alias = ""
    THEN LET h == Cookie_raise_error(slf, PyStr(AliasMessage), PyInt(500))
         IN Raised("HTTPException", h.status, h.detail, <<>>, 0)
    ELSE IF request.fault # ""
    THEN Raised("Exception", 0, request.fault, <<>>, 0)
    ELSE LET cookie_value == request.value
         IN IF cookie_value = PyNone
            THEN IF slf.is_required
                 THEN LET h == Cookie_raise_error(slf, slf.err_required, PyNone)
                      IN CookieAssert_except(slf,
                            Raises("HTTPException", PyStr(h.detail), PyInt(h.status),
                                   StrHTTPException(h.status, h.detail)),
                            <<"required">>, 0)
                 ELSE Returned(IF slf.default # Ellipsis THEN slf.default ELSE PyNone,
                               <<"required">>, 0)
            ELSE LET num == CookieAssert_validate_numeric(slf, cookie_value)
                     numeric_value == num.ret
                     results == [i \in 1..Len(CookieRuleOrder) |->
                                    CookieAssert_check(slf, CookieRuleOrder[i],
                                                       cookie_value, numeric_value)]
                     k == FirstFailure(results)
                     last == IF k = 0 THEN Len(CookieRuleOrder) ELSE k
                     ran == SubSeq(CookieRuleOrder, 1, last)
                     called(name) == name # "comparison" \/ numeric_value # PyNone
                     trace == <<"required">> \o SelectSeq(ran, called)
                     spy == IF slf.custom_validator # NoFn
                               /\ \E i \in 1..last : CookieRuleOrder[i] = "custom"
                            THEN 1 ELSE 0
                 IN IF k # 0
                    THEN CookieAssert_except(slf, results[k], trace, spy)
                    ELSE Returned(IF numeric_value # PyNone THEN numeric_value
                                  ELSE cookie_value, trace, spy)

\* constructor arguments explored for CookieAssert
CookieMessageArgs ==
    {[on_required_error_detail |-> Unset, on_numeric_error_detail |-> Unset,
      on_comparison_error_detail |-> Unset, on_length_error_detail |-> Unset,
      on_pattern_error_detail |-> Unset, on_validator_error_detail |-> Unset],
     [on_required_error_detail |-> PyStr("req"), on_numeric_error_detail |-> PyStr("num"),
      on_comparison_error_detail |-> PyStr("comp"), on_length_error_detail |-> PyStr("len"),
      on_pattern_error_detail |-> PyStr("pat"), on_validator_error_detail |-> PyStr("val")]}

CookiePatternArgs ==
    {[pattern |-> NoRegex, format |-> ""],
     [pattern |-> Regex("3", FALSE, {"3"}, 1, 1, FALSE), format |-> ""],
     [pattern |-> NoRegex, format |-> "uuid4"]}

CookieArgsOf(alias, default, required, num, len, pat, validator, msgs, status_code) ==
    [alias |-> alias, default |-> default, required |-> required,
     gt |-> num.gt, ge |-> num.ge, lt |-> num.lt, le |-> num.le,
     min_length |-> len.min_length, max_length |-> len.max_length,
     pattern |-> pat.pattern, format |-> pat.format, validator |-> validator,
     on_required_error_detail |-> msgs.on_required_error_detail,
     on_numeric_error_detail |-> msgs.on_numeric_error_detail,
     on_comparison_error_detail |-> msgs.on_comparison_error_detail,
     on_length_error_detail |-> msgs.on_length_error_detail,
     on_pattern_error_detail |-> msgs.on_pattern_error_detail,
     on_validator_error_detail |-> msgs.on_validator_error_detail,
     status_code |-> status_code, error_detail |-> Unset]

NumericArgs == [gt : {PyNone, PyInt(3)}, ge : {PyNone, PyInt(3)},
                lt : {PyNone, PyInt(3)}, le : {PyNone, PyInt(3)}]

NoNumericArgs == [gt |-> PyNone, ge |-> PyNone, lt |-> PyNone, le |-> PyNone]

LengthArgs == [min_length : {PyNone, PyInt(2)}, max_length : {PyNone, PyInt(1)}]

NoLengthArgs == [min_length |-> PyNone, max_length |-> PyNone]

\* instances that vary in what decides requiredness and the error
\* reporting, and instances that vary in their rules
CookieArgs ==
    {CookieArgsOf(alias, default, required, num, NoLengthArgs, pat, validator, msgs, sc) :
        alias \in {"", "sid"},
        default \in {Unset, PyNone, PyStr("guest")},
        required \in {Unset, PyBool(TRUE), PyBool(FALSE)},
        num \in {NoNumericArgs, [NoNumericArgs EXCEPT !.gt = PyInt(3)]},
        pat \in {p \in CookiePatternArgs : p.format = ""},
        validator \in {NoFn, FnTrue},
        msgs \in CookieMessageArgs,
        sc \in {Unset, PyInt(422)}}
    \cup
    {CookieArgsOf("sid", Unset, Unset, num, len, pat, validator, msgs, sc) :
        num \in NumericArgs,
        len \in LengthArgs,
        pat \in CookiePatternArgs,
        validator \in {NoFn, FnTrue, FnFalse, FnRaise("boom")},
        msgs \in CookieMessageArgs,
        sc \in {Unset, PyInt(422)}}

\* requests: no cookie under the alias, or a cookie with some text
\* or reading request.cookies raises an exception with the text of fault
CookieRequests ==
    {[value |-> PyNone, fault |-> ""]}
    \cup {[value |-> PyStr(s), fault |-> ""] : s \in Texts}
    \cup {[value |-> PyNone, fault |-> f] : f \in {"Unexpected crash!", "boom"}}

-----------------------------------------------------------------------------
(* core/exceptions.py and core/base_validator.py                            *)

\* ValidationError of the core module: __init__ stores detail and
\* status_code and never calls Exception.__init__; every raise passes both as
\* keywords, so e.args is empty and str(e) is the empty string
CoreValidationError(detail, status_code) ==
    Raises("ValidationError", detail, status_code, "")

\* a callable error detail: given the value it returns s followed by str(value)
PyCallable(x) == [t |-> "callable", s |-> x, n |-> 0]

\* an empty detail override is used as it is
Core_raise_error_NoFallback(slf, value, status_code, detail) ==
    IF value = Unset
    THEN [exc |-> "TypeError", status |-> 0,
          detail |-> "BaseValidator._raise_error() missing 1 required positional argument: 'value'"]
    ELSE LET final_status_code == IF status_code # PyNone THEN status_code
                                  ELSE slf.status_code
             error_source == IF detail # PyNone THEN detail ELSE slf.error_detail
             final_detail == IF error_source.t = "callable"
                             THEN error_source.s \o StrOf(value)
                             ELSE StrOf(error_source)
         IN [exc |-> "HTTPException", status |-> final_status_code.n,
             detail |-> final_detail]

\* BaseValidator._raise_error(value, status_code, detail): the exception the
\* call ends with.  value is a required positional parameter: a call that
\* passes none (Unset) fails with TypeError before the body runs.
Core_raise_error(slf, value, status_code, detail) ==
    IF value = Unset
    THEN [exc |-> "TypeError", status |-> 0,
          detail |-> "BaseValidator._raise_error() missing 1 required positional argument: 'value'"]
    ELSE LET final_status_code == IF status_code # PyNone THEN status_code
                                  ELSE slf.status_code
             error_source == IF Truthy(detail) THEN detail ELSE slf.error_detail
             final_detail == IF error_source.t = "callable"
                             THEN error_source.s \o StrOf(value)
                             ELSE StrOf(error_source)
         IN [exc |-> "HTTPException", status |-> final_status_code.n,
             detail |-> final_detail]

\* BaseValidator.__init__
BaseValidator_init(a) ==
    [status_code |-> ArgOr(a.status_code, PyInt(400)),
     error_detail |-> ArgOr(a.error_detail, PyStr("Validation failed."))]

\* constructor arguments of a minimal concrete subclass of BaseValidator
BaseArgs ==
    [status_code : {Unset, PyInt(401)},
     error_detail : {Unset, PyStr("Auth error."), PyCallable("The value is invalid: ")}]

\* calls of _raise_error: the failing value and the two overrides
RaiseErrorRequests ==
    {[value |-> v, fault |-> "", status_code |-> sc, detail |-> d] :
        v \in {PyStr("bad_input"), PyInt(3)},
        sc \in {PyNone, PyInt(403)},
        d \in {PyNone, PyStr(""), PyStr("Override detail."),
               PyCallable("Callable override received: ")}}

\* sep.join(items)
RECURSIVE Join(_, _)
Join(items, sep) ==
    IF Len(items) = 0 THEN ""
    ELSE IF Len(items) = 1 THEN items[1]
    ELSE items[1] \o sep \o Join(Tail(items), sep)

\* value in items
PyIn(value, items) == \E i \in 1..Len(items) : items[i] = value

StrAll(items) == [i \in 1..Len(items) |-> StrOf(items[i])]

-----------------------------------------------------------------------------
(* request_validators/header_validator.py and validators/header_validator.py *)

\* _FORMAT_PATTERNS (the same table in both modules)
FORMAT_PATTERNS ==
    [uuid4 |-> Regex("uuid4", TRUE, HexChars \cup {"-"}, 36, 36, TRUE),
     alphanumeric |-> Regex("alphanumeric", TRUE, Letters \cup Digits, 1, 0 - 1, TRUE),
     api_key |-> Regex("api_key", TRUE, Letters \cup Digits, 32, 0 - 1, TRUE)]

\* the part of __init__ that both modules share
Header_init_rules(a) ==
    [allowed_values |-> a.allowed_values,
     custom_validator |-> a.validator,
     pattern |-> IF a.format # "" THEN FORMAT_PATTERNS[a.format] ELSE a.pattern,
     format_name |-> a.format]

\* request_validators HeaderValidator.__init__
HeaderValidator_init(a) ==
    [status_code |-> ArgOr(a.status_code, PyInt(400)),
     error_detail |-> ArgOr(a.error_detail, PyStr("Header Validation Failed")),
     required |-> ArgOr(a.required, PyBool(TRUE)),
     on_error_detail |-> PyNone,
     rules |-> Header_init_rules(a)]

\* validators HeaderValidator.__init__
HeaderValidatorV_init(a) ==
    LET on_error_detail == ArgOr(a.on_error_detail, PyNone)
        required == ArgOr(a.required, PyNone)
    IN [status_code |-> PyInt(400),
        error_detail |-> PyOr(on_error_detail, PyStr("Header validation failed.")),
        required |-> IF required = PyNone
                     THEN PyBool(ArgOr(a.default, Ellipsis) = Ellipsis)
                     ELSE required,
        on_error_detail |-> on_error_detail,
        rules |-> Header_init_rules(a)]

\* only the empty string counts as absent
HeaderIsAbsent_EmptyOnly(value) == value = PyStr("")

HeaderIsAbsent(value) == value = PyNone \/ value = PyStr("")

\* request_validators HeaderValidator._validate_required
HeaderValidator_validate_required(slf, value) ==
    IF Truthy(slf.required) /\ HeaderIsAbsent(value)
    THEN CoreValidationError(PyStr("Required header is missing."), PyInt(400))
    ELSE Passed

\* validators HeaderValidator._validate_required
HeaderValidatorV_validate_required(slf, value) ==
    IF Truthy(slf.required) /\ HeaderIsAbsent(value)
    THEN LET detail == PyOr(slf.on_error_detail, PyStr("Required header is missing."))
             detail_str == IF detail.t = "callable" THEN detail.s \o StrOf(value)
                           ELSE StrOf(detail)
         IN CoreValidationError(PyStr(detail_str), PyInt(400))
    ELSE Passed

\* HeaderValidator._validate_allowed_values (the same in both modules)
HeaderValidator_validate_allowed_values(slf, value) ==
    IF slf.rules.allowed_values = <<>> THEN Passed
    ELSE IF ~PyIn(value, slf.rules.allowed_values)
    THEN CoreValidationError(
            PyStr("Header value '" \o StrOf(value) \o "' is not allowed. "
                  \o "Allowed values are: "
                  \o Join(StrAll(slf.rules.allowed_values), ", ")), PyInt(400))
    ELSE Passed

\* HeaderValidator._validate_pattern (the same in both modules)
HeaderValidator_validate_pattern(slf, value) ==
    IF slf.rules.pattern = NoRegex THEN Passed
    ELSE IF ~ReMatch(slf.rules.pattern, value.s)
    THEN IF slf.rules.format_name # ""
         THEN CoreValidationError(
                 PyStr("Header value does not match the required format: '"
                       \o slf.rules.format_name \o "'"), PyInt(400))
         ELSE CoreValidationError(
                 PyStr("Header value '" \o StrOf(value)
                       \o "' does not match the required pattern: "
                       \o slf.rules.pattern.src), PyInt(400))
    ELSE Passed

\* the body of the try block of HeaderValidator._validate_custom
HeaderValidator_validate_custom_try(slf, value) ==
    CASE slf.rules.custom_validator.beh = "raise" ->
            Raises("Exception", PyNone, PyNone, slf.rules.custom_validator.text)
      [] slf.rules.custom_validator.beh = "false" ->
            CoreValidationError(
                PyStr("Custom validation failed for header value '"
                      \o StrOf(value) \o "'"), PyInt(400))
      [] OTHER -> Passed

\* HeaderValidator._validate_custom (the same in both modules): the except
\* clause also catches the ValidationError raised by the try block
HeaderValidator_validate_custom(slf, value) ==
    IF slf.rules.custom_validator = NoFn THEN Passed
    ELSE LET r == HeaderValidator_validate_custom_try(slf, value)
         IN IF r.raised
            THEN CoreValidationError(PyStr("Custom validation error: " \o r.text),
                                     PyInt(400))
            ELSE Passed

\* the order of the checks in the second try block of _validate
HeaderRuleOrder == <<"allowed_values", "pattern", "custom">>

HeaderValidator_check(slf, name, value) ==
    CASE name = "allowed_values" -> HeaderValidator_validate_allowed_values(slf, value)
      [] name = "pattern" -> HeaderValidator_validate_pattern(slf, value)
      [] name = "custom" -> HeaderValidator_validate_custom(slf, value)

\* _validate after the required check: required is its result and passValue
\* is what the module hands to _raise_error as `value`
Header_validate_with(slf, value, required, passValue) ==
    LET raise(e, trace, spy) ==
            LET h == Core_raise_error(slf, passValue, e.status_code,
                                      PyStr(StrOf(e.detail)))
            IN Raised(h.exc, h.status, h.detail, trace, spy)
    IN IF required.raised
       THEN raise(required, <<"required">>, 0)
       ELSE IF HeaderIsAbsent(value)
       THEN Returned(PyOr(value, PyStr("")), <<"required">>, 0)
       ELSE LET results == [i \in 1..Len(HeaderRuleOrder) |->
                               HeaderValidator_check(slf, HeaderRuleOrder[i], value)]
                k == FirstFailure(results)
                last == IF k = 0 THEN Len(HeaderRuleOrder) ELSE k
                trace == <<"required">> \o SubSeq(HeaderRuleOrder, 1, last)
                spy == IF slf.rules.custom_validator # NoFn
                          /\ \E i \in 1..last : HeaderRuleOrder[i] = "custom"
                       THEN 1 ELSE 0
            IN IF k # 0 THEN raise(results[k], trace, spy)
               ELSE Returned(value, trace, spy)

\* request_validators HeaderValidator._validate
HeaderValidator_validate(slf, value) ==
    Header_validate_with(slf, value, HeaderValidator_validate_required(slf, value), value)

\* validators HeaderValidator._validate: _raise_error is called with
\* status_code and detail only
HeaderValidatorV_validate(slf, value) ==
    Header_validate_with(slf, value, HeaderValidatorV_validate_required(slf, value), Unset)

\* allowed_values = None is written <<>>
HeaderRuleArgs ==
    [allowed_values : {<<>>, <<PyStr("3"), PyStr("a3")>>},
     pat : {[pattern |-> NoRegex, format |-> ""],
            [pattern |-> Regex("3", FALSE, {"3"}, 1, 1, FALSE), format |-> ""],
            [pattern |-> NoRegex, format |-> "alphanumeric"],
            [pattern |-> NoRegex, format |-> "uuid4"]},
     validator : {NoFn, FnTrue, FnFalse, FnRaise("boom"), FnRaise("")}]

HeaderArgs ==
    {[default |-> d, required |-> r, allowed_values |-> x.allowed_values,
      pattern |-> x.pat.pattern, format |-> x.pat.format, validator |-> x.validator,
      status_code |-> sc, error_detail |-> Unset] :
        d \in {Unset, PyNone, PyStr("v1")},
        r \in {Unset, PyBool(TRUE), PyBool(FALSE)},
        x \in HeaderRuleArgs,
        sc \in {Unset, PyInt(422)}}

HeaderVArgs ==
    {[default |-> d, required |-> r, allowed_values |-> x.allowed_values,
      pattern |-> x.pat.pattern, format |-> x.pat.format, validator |-> x.validator,
      on_error_detail |-> oed] :
        d \in {Unset, PyNone, PyStr("v1")},
        r \in {Unset, PyBool(TRUE), PyBool(FALSE)},
        x \in HeaderRuleArgs,
        oed \in {Unset, PyStr("Invalid header")}}

HeaderRequests == {[value |-> PyNone, fault |-> ""]}
                  \cup {[value |-> PyStr(s), fault |-> ""] : s \in Texts}

-----------------------------------------------------------------------------
(* request_validators/path_assert.py                                        *)

\* PathValidator.__init__
PathValidator_init(a) ==
    LET on_error_detail == ArgOr(a.on_error_detail, PyNone)
    IN [status_code |-> PyInt(400),
        error_detail |-> PyOr(on_error_detail, PyStr("Path parameter validation failed.")),
        allowed_values |-> a.allowed_values,
        pattern |-> a.pattern,
        min_length |-> a.min_length, max_length |-> a.max_length,
        gt |-> a.gt, lt |-> a.lt, ge |-> a.ge, le |-> a.le,
        custom_validator |-> a.validator]

PathValidator_validate_allowed_values(slf, value) ==
    IF slf.allowed_values = <<>> THEN Passed
    ELSE IF ~PyIn(value, slf.allowed_values)
    THEN CoreValidationError(
            PyStr("Value '" \o StrOf(value) \o "' is not allowed. "
                  \o "Allowed values are: "
                  \o Join(StrAll(slf.allowed_values), ", ")), PyInt(400))
    ELSE Passed

PathValidator_validate_pattern(slf, value) ==
    IF slf.pattern = NoRegex THEN Passed
    ELSE IF value.t # "str" THEN Passed
    ELSE IF ~ReMatch(slf.pattern, value.s)
    THEN CoreValidationError(
            PyStr("Value '" \o StrOf(value) \o "' does not match the required pattern: "
                  \o slf.pattern.src), PyInt(400))
    ELSE Passed

\* _validate_length without the `is not None` test on max_length: an unset
\* maximum counts as 0
PathValidator_validate_length_UnsetIsZero(slf, value) ==
    IF value.t # "str" THEN Passed
    ELSE LET value_len == Len(value.s)
             max_length == IF slf.max_length = PyNone THEN PyInt(0) ELSE slf.max_length
         IN IF slf.min_length # PyNone /\ value_len < slf.min_length.n
            THEN CoreValidationError(
                    PyStr("Value '" \o StrOf(value) \o "' is too short. "
                          \o "Minimum length is " \o StrOf(slf.min_length)
                          \o " characters."), PyInt(400))
            ELSE IF value_len > max_length.n
            THEN CoreValidationError(
                    PyStr("Value '" \o StrOf(value) \o "' is too long. "
                          \o "Maximum length is " \o StrOf(max_length)
                          \o " characters."), PyInt(400))
            ELSE Passed

PathValidator_validate_length(slf, value) ==
    IF value.t # "str" THEN Passed
    ELSE LET value_len == Len(value.s)
         IN IF slf.min_length # PyNone /\ value_len < slf.min_length.n
            THEN CoreValidationError(
                    PyStr("Value '" \o StrOf(value) \o "' is too short. "
                          \o "Minimum length is " \o StrOf(slf.min_length)
                          \o " characters."), PyInt(400))
            ELSE IF slf.max_length # PyNone /\ value_len > slf.max_length.n
            THEN CoreValidationError(
                    PyStr("Value '" \o StrOf(value) \o "' is too long. "
                          \o "Maximum length is " \o StrOf(slf.max_length)
                          \o " characters."), PyInt(400))
            ELSE Passed

\* the gt bound lets a value equal to it through
PathValidator_validate_numeric_bounds_LooseGt(slf, value) ==
    IF ~IsNumber(value) THEN Passed
    ELSE IF slf.gt # PyNone /\ value.n < slf.gt.n
    THEN CoreValidationError(
            PyStr("Value must be greater than " \o StrOf(slf.gt)), PyInt(400))
    ELSE IF slf.lt # PyNone /\ value.n >= slf.lt.n
    THEN CoreValidationError(
            PyStr("Value must be less than " \o StrOf(slf.lt)), PyInt(400))
    ELSE IF slf.ge # PyNone /\ value.n < slf.ge.n
    THEN CoreValidationError(
            PyStr("Value must be greater than or equal to " \o StrOf(slf.ge)), PyInt(400))
    ELSE IF slf.le # PyNone /\ value.n > slf.le.n
    THEN CoreValidationError(
            PyStr("Value must be less than or equal to " \o StrOf(slf.le)), PyInt(400))
    ELSE Passed

\* the inclusive bounds are tested before the strict ones
PathValidator_validate_numeric_bounds_InclusiveFirst(slf, value) ==
    IF ~IsNumber(value) THEN Passed
    ELSE IF slf.ge # PyNone /\ value.n < slf.ge.n
    THEN CoreValidationError(
            PyStr("Value must be greater than or equal to " \o StrOf(slf.ge)), PyInt(400))
    ELSE IF slf.le # PyNone /\ value.n > slf.le.n
    THEN CoreValidationError(
            PyStr("Value must be less than or equal to " \o StrOf(slf.le)), PyInt(400))
    ELSE IF slf.gt # PyNone /\ value.n <= slf.gt.n
    THEN CoreValidationError(
            PyStr("Value must be greater than " \o StrOf(slf.gt)), PyInt(400))
    ELSE IF slf.lt # PyNone /\ value.n >= slf.lt.n
    THEN CoreValidationError(
            PyStr("Value must be less than " \o StrOf(slf.lt)), PyInt(400))
    ELSE Passed

PathValidator_validate_numeric_bounds(slf, value) ==
    IF ~IsNumber(value) THEN Passed
    ELSE IF slf.gt # PyNone /\ value.n <= slf.gt.n
    THEN CoreValidationError(
            PyStr("Value must be greater than " \o StrOf(slf.gt)), PyInt(400))
    ELSE IF slf.lt # PyNone /\ value.n >= slf.lt.n
    THEN CoreValidationError(
            PyStr("Value must be less than " \o StrOf(slf.lt)), PyInt(400))
    ELSE IF slf.ge # PyNone /\ value.n < slf.ge.n
    THEN CoreValidationError(
            PyStr("Value must be greater than or equal to " \o StrOf(slf.ge)), PyInt(400))
    ELSE IF slf.le # PyNone /\ value.n > slf.le.n
    THEN CoreValidationError(
            PyStr("Value must be less than or equal to " \o StrOf(slf.le)), PyInt(400))
    ELSE Passed

\* the body of the try block of PathValidator._validate_custom
PathValidator_validate_custom_try(slf, value) ==
    CASE slf.custom_validator.beh = "raise" ->
            Raises("Exception", PyNone, PyNone, slf.custom_validator.text)
      [] slf.custom_validator.beh = "false" ->
            CoreValidationError(
                PyStr("Custom validation failed for value '" \o StrOf(value) \o "'"),
                PyInt(400))
      [] OTHER -> Passed

\* PathValidator._validate_custom: the except clause also catches the
\* ValidationError raised by the try block
PathValidator_validate_custom(slf, value) ==
    IF slf.custom_validator = NoFn THEN Passed
    ELSE LET r == PathValidator_validate_custom_try(slf, value)
         IN IF r.raised
            THEN CoreValidationError(PyStr("Custom validation error: " \o r.text),
                                     PyInt(400))
            ELSE Passed

\* the custom predicate moved to the front
PathRuleOrder_CustomFirst ==
    <<"custom", "allowed_values", "pattern", "length", "numeric_bounds">>

\* the order of the checks in the try block of _validate
PathRuleOrder == <<"allowed_values", "pattern", "length", "numeric_bounds", "custom">>

PathValidator_check(slf, name, value) ==
    CASE name = "allowed_values" -> PathValidator_validate_allowed_values(slf, value)
      [] name = "pattern" -> PathValidator_validate_pattern(slf, value)
      [] name = "length" -> PathValidator_validate_length(slf, value)
      [] name = "numeric_bounds" -> PathValidator_validate_numeric_bounds(slf, value)
      [] name = "custom" -> PathValidator_validate_custom(slf, value)

\* PathValidator._validate
PathValidator_validate(slf, value) ==
    LET results == [i \in 1..Len(PathRuleOrder) |->
                       PathValidator_check(slf, PathRuleOrder[i], value)]
        k == FirstFailure(results)
        last == IF k = 0 THEN Len(PathRuleOrder) ELSE k
        trace == SubSeq(PathRuleOrder, 1, last)
        spy == IF slf.custom_validator # NoFn
                  /\ \E i \in 1..last : PathRuleOrder[i] = "custom"
               THEN 1 ELSE 0
    IN IF k # 0
       THEN LET h == Core_raise_error(slf, value, results[k].status_code,
                                      PyStr(StrOf(results[k].detail)))
            IN Raised(h.exc, h.status, h.detail, trace, spy)
       ELSE Returned(value, trace, spy)

\* allowed_values = None is written <<>>
PathArgs ==
    {[allowed_values |-> av, pattern |-> pat,
      min_length |-> len.min_length, max_length |-> len.max_length,
      gt |-> num.gt, lt |-> num.lt, ge |-> num.ge, le |-> num.le,
      validator |-> validator, on_error_detail |-> oed] :
        av \in {<<>>, <<PyStr("3"), PyStr("a3"), PyInt(3)>>},
        pat \in {NoRegex, Regex("3", FALSE, {"3"}, 1, 1, FALSE)},
        len \in LengthArgs,
        num \in NumericArgs,
        validator \in {NoFn, FnTrue, FnFalse, FnRaise("boom"), FnRaise("")},
        oed \in {Unset, PyStr("Item ID invalid")}}

PathRequests ==
    {[value |-> PyStr(s), fault |-> ""] : s \in Texts}
    \cup {[value |-> PyInt(k), fault |-> ""] : k \in {0 - 3, 3, 33}}

-----------------------------------------------------------------------------
(* validators/file_validator.py                                             *)

MaxChunks == 2

\* the UploadFile handed back to the caller
FileObject == [t |-> "UploadFile", s |-> "", n |-> 0]

RECURSIVE SumSeq(_)
SumSeq(q) == IF Len(q) = 0 THEN 0 ELSE Head(q) + SumSeq(Tail(q))

\* FileValidator.__init__
FileValidator_init(a) ==
    [status_code |-> PyInt(400),
     error_detail |-> ArgOr(a.error_detail, PyStr("File validation failed.")),
     max_size |-> IF Truthy(a.max_size) THEN a.max_size ELSE PyNone,
     min_size |-> IF Truthy(a.min_size) THEN a.min_size ELSE PyNone,
     content_types |-> a.content_types,
     filename_regex |-> a.filename_pattern,
     size_error_detail |-> ArgOr(a.on_size_error_detail, PyNone),
     type_error_detail |-> ArgOr(a.on_type_error_detail, PyNone),
     filename_error_detail |-> ArgOr(a.on_filename_error_detail, PyNone)]

\* validators.utils._match_content_type: an exact match, or a wildcard
\* subtype ("image/*" matches any "image/...")
MatchContentType(file_type, content_types) ==
    \E i \in 1..Len(content_types) :
        LET p == content_types[i]
        IN \/ p = file_type
           \/ /\ Len(p) >= 2
              /\ SubSeq(p, Len(p) - 1, Len(p)) = "/*"
              /\ Len(file_type) >= Len(p) - 1
              /\ SubSeq(file_type, 1, Len(p) - 1) = SubSeq(p, 1, Len(p) - 1)

\* validators.utils._check_size_bounds
CheckSizeBounds(slf, size) ==
    IF slf.max_size # PyNone /\ size > slf.max_size.n
    THEN CoreValidationError(
            PyStr(StrOf(PyOr(slf.size_error_detail,
                  PyStr("File size (" \o IntToStr(size)
                        \o " bytes) exceeds the maximum limit.")))), PyInt(413))
    ELSE IF slf.min_size # PyNone /\ size < slf.min_size.n
    THEN CoreValidationError(
            PyStr(StrOf(PyOr(slf.size_error_detail,
                  PyStr("File size (" \o IntToStr(size)
                        \o " bytes) is less than the minimum requirement.")))), PyInt(400))
    ELSE Passed

\* _get_streamed_size reading the whole stream before it tests the maximum
RECURSIVE GetStreamedSize_ReadsAll(_, _, _, _)
GetStreamedSize_ReadsAll(slf, chunks, count, reads) ==
    IF Len(chunks) = 0
    THEN [res |-> IF slf.max_size # PyNone /\ count > slf.max_size.n
                  THEN CheckSizeBounds(slf, count) ELSE Returns(PyInt(count)),
          reads |-> reads + 1]
    ELSE GetStreamedSize_ReadsAll(slf, Tail(chunks), count + Head(chunks), reads + 1)

\* validators.utils._get_streamed_size: reads chunk after chunk, fails once
\* the running count exceeds max_size, stops at the empty read; ret is the
\* total and reads the number of reads made
RECURSIVE GetStreamedSize(_, _, _, _)
GetStreamedSize(slf, chunks, count, reads) ==
    IF Len(chunks) = 0
    THEN [res |-> Returns(PyInt(count)), reads |-> reads + 1]
    ELSE LET running == count + Head(chunks)
         IN IF slf.max_size # PyNone /\ running > slf.max_size.n
            THEN [res |-> CheckSizeBounds(slf, running), reads |-> reads + 1]
            ELSE GetStreamedSize(slf, Tail(chunks), running, reads + 1)

FileValidator_validate_content_type(slf, file) ==
    IF Len(slf.content_types) = 0 THEN Passed
    ELSE IF file.fault # "" THEN Raises("Exception", PyNone, PyNone, file.fault)
    ELSE LET file_type == file.content_type
         IN IF file_type = PyNone \/ ~MatchContentType(file_type.s, slf.content_types)
            THEN CoreValidationError(
                    PyStr(StrOf(PyOr(slf.type_error_detail,
                          PyStr("File has an unsupported media type: '"
                                \o StrOf(file_type) \o "'. Allowed types are: "
                                \o Join(slf.content_types, ", "))))), PyInt(415))
            ELSE Passed

FileValidator_validate_filename(slf, file) ==
    IF slf.filename_regex = NoRegex THEN Passed
    ELSE IF ~Truthy(file.filename) \/ ~ReSearch(slf.filename_regex, file.filename.s)
    THEN CoreValidationError(
            PyStr(StrOf(PyOr(slf.filename_error_detail,
                  PyStr("Filename '" \o StrOf(file.filename)
                        \o "' does not match the required pattern.")))), PyInt(400))
    ELSE Passed

\* FileValidator._validate_size without the declared-size branch of lines
\* 184-186: the stream is counted whenever a size rule is configured
FileValidator_validate_size_AlwaysStreams(slf, file) ==
    IF slf.max_size = PyNone /\ slf.min_size = PyNone
    THEN [res |-> Passed, reads |-> 0]
    ELSE LET g == GetStreamedSize(slf, file.chunks, 0, 0)
         IN IF g.res.raised THEN g
            ELSE [res |-> CheckSizeBounds(slf, g.res.ret.n), reads |-> g.reads]

\* FileValidator._validate_size: res is its result, reads the reads it made
FileValidator_validate_size(slf, file) ==
    IF slf.max_size = PyNone /\ slf.min_size = PyNone
    THEN [res |-> Passed, reads |-> 0]
    ELSE IF file.size # PyNone
    THEN [res |-> CheckSizeBounds(slf, file.size.n), reads |-> 0]
    ELSE LET g == GetStreamedSize(slf, file.chunks, 0, 0)
         IN IF g.res.raised THEN g
            ELSE [res |-> CheckSizeBounds(slf, g.res.ret.n), reads |-> g.reads]

\* FileValidator.__call__ without the rewind of line 138
FileValidator_call_NoRewind(slf, file) ==
    LET ct == FileValidator_validate_content_type(slf, file)
        fn == FileValidator_validate_filename(slf, file)
        sz == FileValidator_validate_size(slf, file)
        e == IF ct.raised THEN ct ELSE IF fn.raised THEN fn ELSE sz.res
        reads == IF ct.raised \/ fn.raised THEN 0 ELSE sz.reads
        ops == [i \in 1..reads |-> "read"]
    IN IF ~e.raised
       THEN Returned(FileObject, ops, 0)
       ELSE IF e.type = "ValidationError"
       THEN LET h == Core_raise_error(slf, Unset, e.status_code, PyStr(StrOf(e.detail)))
            IN Raised(h.exc, h.status, h.detail, ops, 0)
       ELSE LET h == Core_raise_error(slf, Unset, PyInt(400),
                        PyStr("An unexpected error occurred during file validation."))
            IN Raised(h.exc, h.status, h.detail, ops \o <<"close">>, 0)

\* FileValidator.__call__ with the unexpected-error branch falling through
\* to the rewind instead of closing
FileValidator_call_SeekOnError(slf, file) ==
    LET ct == FileValidator_validate_content_type(slf, file)
        fn == FileValidator_validate_filename(slf, file)
        sz == FileValidator_validate_size(slf, file)
        e == IF ct.raised THEN ct ELSE IF fn.raised THEN fn ELSE sz.res
        reads == IF ct.raised \/ fn.raised THEN 0 ELSE sz.reads
        ops == [i \in 1..reads |-> "read"]
    IN IF ~e.raised
       THEN Returned(FileObject, ops \o <<"seek">>, 0)
       ELSE IF e.type = "ValidationError"
       THEN LET h == Core_raise_error(slf, Unset, e.status_code, PyStr(StrOf(e.detail)))
            IN Raised(h.exc, h.status, h.detail, ops, 0)
       ELSE LET h == Core_raise_error(slf, Unset, PyInt(400),
                        PyStr("An unexpected error occurred during file validation."))
            IN Raised(h.exc, h.status, h.detail, ops \o <<"seek">>, 0)

\* FileValidator.__call__; trace lists the operations made on the stream
FileValidator_call(slf, file) ==
    LET ct == FileValidator_validate_content_type(slf, file)
        fn == FileValidator_validate_filename(slf, file)
        sz == FileValidator_validate_size(slf, file)
        e == IF ct.raised THEN ct ELSE IF fn.raised THEN fn ELSE sz.res
        reads == IF ct.raised \/ fn.raised THEN 0 ELSE sz.reads
        ops == [i \in 1..reads |-> "read"]
    IN IF ~e.raised
       THEN Returned(FileObject, ops \o <<"seek">>, 0)
       ELSE IF e.type = "ValidationError"
       THEN LET h == Core_raise_error(slf, Unset, e.status_code, PyStr(StrOf(e.detail)))
            IN Raised(h.exc, h.status, h.detail, ops, 0)
       ELSE LET h == Core_raise_error(slf, Unset, PyInt(400),
                        PyStr("An unexpected error occurred during file validation."))
            IN Raised(h.exc, h.status, h.detail, ops \o <<"close">>, 0)

FileArgs ==
    [max_size : {PyNone, PyInt(1), PyInt(3)},
     min_size : {PyNone, PyInt(2)},
     content_types : {<<>>, <<"text/plain">>, <<"image/*", "text/csv">>},
     filename_pattern : {NoRegex, Regex("3", FALSE, {"3"}, 1, 1, FALSE)},
     on_size_error_detail : {Unset, PyStr("Bad size")},
     on_type_error_detail : {Unset},
     on_filename_error_detail : {Unset},
     error_detail : {Unset}]

RECURSIVE ChunkSeqs(_)
ChunkSeqs(k) ==
    IF k = 0 THEN {<<>>}
    ELSE LET S == ChunkSeqs(k - 1) IN S \cup {Append(q, c) : q \in S, c \in {1, 2}}

\* uploads: the stream holds chunks; size is the declared length, when the
\* transport gave one (the length of the stream, or the 4 bytes a header
\* announced); fault is the text of the exception that reading content_type
\* raises, when it does
FileRequests ==
    {[content_type |-> ct, filename |-> fname, chunks |-> q,
      size |-> IF declared = "no" THEN PyNone
               ELSE IF declared = "stream" THEN PyInt(SumSeq(q)) ELSE PyInt(4),
      fault |-> fault] :
        ct \in {PyNone, PyStr("text/plain"), PyStr("image/png")},
        fname \in {PyNone, PyStr("a3"), PyStr("a")},
        q \in ChunkSeqs(MaxChunks),
        declared \in {"no", "stream", "header"},
        fault \in {"", "Unexpected crash!"}}

-----------------------------------------------------------------------------
(* validators/image_validator.py                                            *)

DEFAULT_IMAGE_CONTENT_TYPES ==
    <<"image/jpeg", "image/png", "image/gif", "image/webp", "image/bmp", "image/tiff">>

\* str.upper() on the format names in use
Upper(s) ==
    CASE s = "png" -> "PNG"
      [] s = "gif" -> "GIF"
      [] s = "jpeg" -> "JPEG"
      [] OTHER -> s

\* int(w_str), int(h_str) of r.split(":") for one-digit terms, as a pair
ParseAspectRatio(r) == [w |-> DigitVal(CharAt(r, 1)), h |-> DigitVal(CharAt(r, 3))]

\* the default aspect_ratio_tolerance 0.05 as a fraction
DefaultTolerance == [num |-> 1, den |-> 20]

\* ImageValidator.__init__: the parent's arguments travel in kwargs
ImageValidator_init(a) ==
    LET kwargs == [max_size |-> a.max_size, min_size |-> PyNone,
                   content_types |-> IF a.content_types.given THEN a.content_types.list
                                     ELSE DEFAULT_IMAGE_CONTENT_TYPES,
                   filename_pattern |-> NoRegex,
                   on_size_error_detail |-> Unset, on_type_error_detail |-> Unset,
                   on_filename_error_detail |-> Unset,
                   error_detail |-> ArgOr(a.error_detail, PyStr("Image validation failed."))]
    IN FileValidator_init(kwargs) @@
       [allowed_formats |-> [i \in 1..Len(a.allowed_formats) |-> Upper(a.allowed_formats[i])],
        min_resolution |-> a.min_resolution,
        max_resolution |-> a.max_resolution,
        exact_resolution |-> a.exact_resolution,
        aspect_ratio_strings |-> a.aspect_ratios,
        aspect_ratios |-> [i \in 1..Len(a.aspect_ratios) |->
                              ParseAspectRatio(a.aspect_ratios[i])],
        aspect_ratio_tolerance |-> DefaultTolerance,
        format_error_detail |-> ArgOr(a.on_format_error_detail, PyNone),
        resolution_error_detail |-> PyNone,
        aspect_ratio_error_detail |-> PyNone]

\* "{width}x{height}"
Dims(w, h) == IntToStr(w) \o "x" \o IntToStr(h)

ImageValidator_validate_format(slf, img) ==
    IF Len(slf.allowed_formats) = 0 THEN Passed
    ELSE IF ~Truthy(img.format) \/ ~PyIn(img.format.s, slf.allowed_formats)
    THEN CoreValidationError(
            PyStr(StrOf(PyOr(slf.format_error_detail,
                  PyStr("Unsupported image format: '" \o StrOf(img.format)
                        \o "'. Allowed formats are: "
                        \o Join(slf.allowed_formats, ", "))))), PyInt(415))
    ELSE Passed

ImageValidator_validate_resolution(slf, img) ==
    IF Len(slf.min_resolution) = 0 /\ Len(slf.max_resolution) = 0
       /\ Len(slf.exact_resolution) = 0
    THEN Passed
    ELSE LET width == img.width
             height == img.height
             exact == IF Len(slf.exact_resolution) # 0
                         /\ <<width, height>> # slf.exact_resolution
                      THEN "Image resolution must be exactly "
                           \o Dims(slf.exact_resolution[1], slf.exact_resolution[2])
                           \o ". Got " \o Dims(width, height) \o "."
                      ELSE ""
             below == IF exact = "" /\ Len(slf.min_resolution) # 0
                         /\ (width < slf.min_resolution[1] \/ height < slf.min_resolution[2])
                      THEN "Image resolution (" \o Dims(width, height)
                           \o ") is below the minimum of "
                           \o Dims(slf.min_resolution[1], slf.min_resolution[2]) \o "."
                      ELSE exact
             err_msg == IF below = "" /\ Len(slf.max_resolution) # 0
                           /\ (width > slf.max_resolution[1] \/ height > slf.max_resolution[2])
                        THEN "Image resolution (" \o Dims(width, height)
                             \o ") exceeds the maximum of "
                             \o Dims(slf.max_resolution[1], slf.max_resolution[2]) \o "."
                        ELSE below
         IN IF err_msg # ""
            THEN CoreValidationError(
                    PyStr(StrOf(PyOr(slf.resolution_error_detail, PyStr(err_msg)))),
                    PyInt(400))
            ELSE Passed

\* f"{w / h:.2f}" for the sizes in use
Ratio2f(w, h) ==
    LET q == (200 * w + h) \div (2 * h)
        frac == q % 100
    IN IntToStr(q \div 100) \o "."
       \o (IF frac < 10 THEN "0" ELSE "") \o IntToStr(frac)

\* abs(w / h - t.w / t.h) <= tolerance, cross-multiplied
WithinTolerance(w, h, t, tol) ==
    LET d == w * t.h - t.w * h
        abs == IF d < 0 THEN 0 - d ELSE d
    IN abs * tol.den <= tol.num * h * t.h

\* the source writes an "almost equal" sign where the model writes ~
ImageValidator_validate_aspect_ratio(slf, img) ==
    IF Len(slf.aspect_ratios) = 0 THEN Passed
    ELSE IF img.height = 0
    THEN CoreValidationError(
            PyStr("Image has zero height and aspect ratio cannot be calculated."),
            PyInt(400))
    ELSE IF \E i \in 1..Len(slf.aspect_ratios) :
               WithinTolerance(img.width, img.height, slf.aspect_ratios[i],
                               slf.aspect_ratio_tolerance)
    THEN Passed
    ELSE CoreValidationError(
            PyStr(StrOf(PyOr(slf.aspect_ratio_error_detail,
                  PyStr("Image aspect ratio (" \o IntToStr(img.width) \o ":"
                        \o IntToStr(img.height) \o " ~ "
                        \o Ratio2f(img.width, img.height)
                        \o ") is not allowed. Allowed ratios are: "
                        \o Join(slf.aspect_ratio_strings, ", "))))), PyInt(400))

\* the second try block of ImageValidator.__call__: Image.open and the three
\* content checks
ImageValidator_checks(slf, file) ==
    IF file.image.open = "unidentified"
    THEN Raises("UnidentifiedImageError", PyNone, PyNone, file.image.text)
    ELSE IF file.image.open = "fault"
    THEN Raises("Exception", PyNone, PyNone, file.image.text)
    ELSE LET img == file.image
             f == ImageValidator_validate_format(slf, img)
             r == ImageValidator_validate_resolution(slf, img)
         IN IF f.raised THEN f ELSE IF r.raised THEN r
            ELSE ImageValidator_validate_aspect_ratio(slf, img)

\* ImageValidator.__call__.  The parent converts its own failures, so what
\* leaves super().__call__ is never a ValidationError and passes through.
\* The finally clause seeks whatever happened; after the close of the
\* unexpected-error path that seek is made on a closed file, and
\* file.seek_closed says what the upload object does then.
ImageValidator_call(slf, file) ==
    LET parent == FileValidator_call(slf, file)
        e == ImageValidator_checks(slf, file)
    IN IF parent.exc # "" THEN parent
       ELSE IF ~e.raised
       THEN Returned(FileObject, parent.trace \o <<"seek">>, 0)
       ELSE IF e.type = "UnidentifiedImageError"
       THEN LET detail == PyOr(slf.format_error_detail,
                               PyStr("File is not a valid image or is corrupted. Error: "
                                     \o e.text))
                h == Core_raise_error(slf, Unset, PyInt(415), detail)
            IN Raised(h.exc, h.status, h.detail, parent.trace \o <<"seek">>, 0)
       ELSE IF e.type = "ValidationError"
       THEN LET h == Core_raise_error(slf, Unset, e.status_code, PyStr(StrOf(e.detail)))
            IN Raised(h.exc, h.status, h.detail, parent.trace \o <<"seek">>, 0)
       ELSE LET h == Core_raise_error(slf, Unset, PyInt(400),
                        PyStr("An unexpected error occurred during image validation: "
                              \o e.text))
                ops == parent.trace \o <<"close", "seek">>
            IN IF file.seek_closed = "ValueError"
               THEN Raised("ValueError", 0, "I/O operation on closed file.", ops, 0)
               ELSE Raised(h.exc, h.status, h.detail, ops, 0)

\* resolutions: None is written <<>>
ImageArgs ==
    {[max_size |-> ms, content_types |-> ct, allowed_formats |-> af,
      min_resolution |-> res.min, max_resolution |-> res.max,
      exact_resolution |-> res.exact, aspect_ratios |-> ar,
      on_format_error_detail |-> fed, error_detail |-> Unset] :
        ms \in {PyNone, PyInt(3)},
        ct \in {[given |-> FALSE, list |-> <<>>], [given |-> TRUE, list |-> <<"image/*">>]},
        af \in {<<>>, <<"png">>},
        res \in {[min |-> <<>>, max |-> <<>>, exact |-> <<>>],
                 [min |-> <<2, 2>>, max |-> <<>>, exact |-> <<>>],
                 [min |-> <<>>, max |-> <<2, 2>>, exact |-> <<>>],
                 [min |-> <<>>, max |-> <<>>, exact |-> <<2, 2>>]},
        ar \in {<<>>, <<"1:1">>},
        fed \in {Unset, PyStr("Only PNG images are allowed.")}}

\* what Image.open makes of the payload
ImagePayloads ==
    {[open |-> "ok", text |-> "", format |-> f, width |-> d[1], height |-> d[2]] :
        f \in {PyNone, PyStr("PNG"), PyStr("GIF")},
        d \in {<<2, 2>>, <<4, 2>>, <<1, 1>>}}
    \cup {[open |-> "unidentified", text |-> "cannot identify image file",
           format |-> PyNone, width |-> 0, height |-> 0]}
    \cup {[open |-> "fault", text |-> t, format |-> PyNone, width |-> 0, height |-> 0] :
            t \in {"Unexpected crash!", "boom"}}

ImageRequests ==
    {[content_type |-> ct, filename |-> PyStr("a.png"), chunks |-> q,
      size |-> IF declared THEN PyInt(SumSeq(q)) ELSE PyNone, fault |-> fault,
      image |-> img, seek_closed |-> sc] :
        ct \in {PyStr("text/plain"), PyStr("image/png")},
        q \in {<<1>>, <<2, 2>>},
        declared \in BOOLEAN,
        fault \in {"", "Unexpected crash!"},
        img \in ImagePayloads,
        sc \in {"ok", "ValueError"}}

-----------------------------------------------------------------------------
(* The state machine                                                        *)

InitCookie ==
    \E a \in CookieArgs :
        /\ kind = "CookieAssert"
        /\ ctor = a
        /\ self = CookieAssert_init(a)

InitHeader ==
    \E a \in HeaderArgs :
        /\ kind = "HeaderValidator"
        /\ ctor = a
        /\ self = HeaderValidator_init(a)

InitHeaderV ==
    \E a \in HeaderVArgs :
        /\ kind = "HeaderValidatorV"
        /\ ctor = a
        /\ self = HeaderValidatorV_init(a)

InitPath ==
    \E a \in PathArgs :
        /\ kind = "PathValidator"
        /\ ctor = a
        /\ self = PathValidator_init(a)

InitFile ==
    \E a \in FileArgs :
        /\ kind = "FileValidator"
        /\ ctor = a
        /\ self = FileValidator_init(a)

InitImage ==
    \E a \in ImageArgs :
        /\ kind = "ImageValidator"
        /\ ctor = a
        /\ self = ImageValidator_init(a)

InitBase ==
    \E a \in BaseArgs :
        /\ kind = "BaseValidator"
        /\ ctor = a
        /\ self = BaseValidator_init(a)

Init ==
    /\ (InitCookie \/ InitHeader \/ InitHeaderV \/ InitPath \/ InitFile
        \/ InitImage \/ InitBase)
    /\ req = NoRequest
    /\ out = NoCall

\* CookieAssert.__call__ keeping the cookie it read as the instance's default
CookieCall_KeepsValue ==
    /\ kind = "CookieAssert"
    /\ out = NoCall
    /\ \E r \in CookieRequests :
          /\ req' = r
          /\ out' = CookieAssert_call(self, r)
          /\ self' = [self EXCEPT !.default = r.value]
    /\ UNCHANGED <<kind, ctor>>

\* a request arrives and CookieAssert.__call__ runs on it
CookieCall ==
    /\ kind = "CookieAssert"
    /\ out = NoCall
    /\ \E r \in CookieRequests :
          /\ req' = r
          /\ out' = CookieAssert_call(self, r)
    /\ UNCHANGED <<kind, ctor, self>>

\* request_validators HeaderValidator: the dependency runs _validate on the
\* header value the framework extracted
HeaderCall ==
    /\ kind = "HeaderValidator"
    /\ out = NoCall
    /\ \E r \in HeaderRequests :
          /\ req' = r
          /\ out' = HeaderValidator_validate(self, r.value)
    /\ UNCHANGED <<kind, ctor, self>>

\* validators HeaderValidator: the dependency runs _validate
HeaderVCall ==
    /\ kind = "HeaderValidatorV"
    /\ out = NoCall
    /\ \E r \in HeaderRequests :
          /\ req' = r
          /\ out' = HeaderValidatorV_validate(self, r.value)
    /\ UNCHANGED <<kind, ctor, self>>

\* PathValidator: the dependency runs _validate on the path parameter
PathCall ==
    /\ kind = "PathValidator"
    /\ out = NoCall
    /\ \E r \in PathRequests :
          /\ req' = r
          /\ out' = PathValidator_validate(self, r.value)
    /\ UNCHANGED <<kind, ctor, self>>

\* FileValidator.__call__ runs on an upload
FileCall ==
    /\ kind = "FileValidator"
    /\ out = NoCall
    /\ \E r \in FileRequests :
          /\ req' = r
          /\ out' = FileValidator_call(self, r)
    /\ UNCHANGED <<kind, ctor, self>>

\* ImageValidator.__call__ runs on an upload
ImageCall ==
    /\ kind = "ImageValidator"
    /\ out = NoCall
    /\ \E r \in ImageRequests :
          /\ req' = r
          /\ out' = ImageValidator_call(self, r)
    /\ UNCHANGED <<kind, ctor, self>>

\* a subclass calls _raise_error with a value and optional overrides
RaiseErrorCall ==
    /\ kind = "BaseValidator"
    /\ out = NoCall
    /\ \E r \in RaiseErrorRequests :
          /\ req' = r
          /\ out' = LET h == Core_raise_error(self, r.value, r.status_code, r.detail)
                    IN Raised(h.exc, h.status, h.detail, <<>>, 0)
    /\ UNCHANGED <<kind, ctor, self>>

\* the outcome has been handed to the caller; the instance waits for the
\* next request
Respond ==
    /\ out # NoCall
    /\ req' = NoRequest
    /\ out' = NoCall
    /\ UNCHANGED <<kind, ctor, self>>

Next ==
    \/ CookieCall \/ HeaderCall \/ HeaderVCall \/ PathCall \/ FileCall
    \/ ImageCall \/ RaiseErrorCall \/ Respond

Spec == Init /\ [][Next]_vars

-----------------------------------------------------------------------------
(* Properties                                                               *)

Called == out # NoCall

CookieCalled == kind = "CookieAssert" /\ Called /\ self.alias # "" /\ req.fault = ""

\* C1: a required CookieAssert called on a request without the cookie raises
\* HTTPException with status 400 and the configured on_required_error_detail
C1_RequiredMissingIs400 ==
    (CookieCalled /\ self.is_required /\ req.value = PyNone /\ ctor.status_code = Unset)
        => /\ out.exc = "HTTPException"
           /\ out.status = 400
           /\ out.detail = StrOf(ArgOr(ctor.on_required_error_detail,
                                       PyStr("Cookie is required.")))


StartsWith(s, p) == Len(s) >= Len(p) /\ SubSeq(s, 1, Len(p)) = p

Last(q) == q[Len(q)]

\* the first check of FileValidator.__call__ that fails on the upload
FileFirstFailure(slf, file) ==
    LET ct == FileValidator_validate_content_type(slf, file)
        fn == FileValidator_validate_filename(slf, file)
        sz == FileValidator_validate_size(slf, file)
    IN IF ct.raised THEN ct ELSE IF fn.raised THEN fn ELSE sz.res

\* C2: when a rule check of FileValidator.__call__ fails (content type,
\* filename, size), the caller receives an HTTPException with the status code
\* and detail of that rule; no other exception type escapes
C2_FileRuleFailureIsHTTPException ==
    (kind = "FileValidator" /\ Called)
        => LET e == FileFirstFailure(self, req)
           IN (e.raised /\ e.type = "ValidationError")
                 => /\ out.exc = "HTTPException"
                    /\ out.status = e.status_code.n
                    /\ out.detail = StrOf(e.detail)

HeaderKinds == {"HeaderValidator", "HeaderValidatorV"}

HeaderMismatchDetail(slf, value) ==
    IF slf.rules.format_name # ""
    THEN "Header value does not match the required format: '"
         \o slf.rules.format_name \o "'"
    ELSE "Header value '" \o StrOf(value) \o "' does not match the required pattern: "
         \o slf.rules.pattern.src

\* C3: in both HeaderValidator implementations, _validate on a required
\* header raises HTTPException 400 'Required header is missing.' for an absent
\* value, HTTPException 400 with the mismatch detail for a value that does not
\* match the pattern or format, and returns a matching value unchanged
C3_RequiredHeaderScenario ==
    (kind \in HeaderKinds /\ Called /\ Truthy(self.required)
       /\ self.on_error_detail = PyNone
       /\ self.rules.pattern # NoRegex
       /\ self.rules.allowed_values = <<>>
       /\ self.rules.custom_validator = NoFn)
        => /\ req.value = PyNone
                => /\ out.exc = "HTTPException"
                   /\ out.status = 400
                   /\ out.detail = "Required header is missing."
           /\ (~HeaderIsAbsent(req.value) /\ ~ReMatch(self.rules.pattern, req.value.s))
                => /\ out.exc = "HTTPException"
                   /\ out.status = 400
                   /\ out.detail = HeaderMismatchDetail(self, req.value)
           /\ (~HeaderIsAbsent(req.value) /\ ReMatch(self.rules.pattern, req.value.s))
                => /\ out.exc = ""
                   /\ out.value = req.value

\* requiredness as the precedence rule states it
RequiredByPrecedence(c) ==
    IF c.required # Unset THEN Truthy(c.required) ELSE c.default = Unset

\* C4: is_required equals the explicit required flag when one is passed and
\* is otherwise true exactly when no default was supplied
C4_RequiredPrecedence ==
    /\ kind = "CookieAssert" => self.is_required = RequiredByPrecedence(ctor)
    /\ kind = "HeaderValidatorV" => Truthy(self.required) = RequiredByPrecedence(ctor)

AbsentNotRequired ==
    /\ Called
    /\ \/ CookieCalled
       \/ kind \in HeaderKinds
    /\ ctor.required = PyBool(FALSE)
    /\ req.value = PyNone

\* C5 as stated: with required=False an absent value yields exactly the
\* configured default and no other rule is evaluated
C5_AbsentReturnsConfiguredDefault ==
    (AbsentNotRequired /\ ctor.default # Unset)
        => /\ out.exc = ""
           /\ out.value = ctor.default
           /\ out.spy = 0
           /\ out.trace = <<"required">>

\* C5 as amended: with required=False an absent value makes CookieAssert
\* return the configured default (None when none was supplied) and
\* HeaderValidator._validate return the empty string; in both no rule after
\* the required check is evaluated and the custom predicate is never called
C5_AbsentShortCircuits ==
    AbsentNotRequired
        => /\ out.exc = ""
           /\ kind = "CookieAssert"
                => out.value = (IF ctor.default = Unset THEN PyNone ELSE ctor.default)
           /\ kind \in HeaderKinds => out.value = PyStr("")
           /\ out.spy = 0
           /\ out.trace = <<"required">>

C5_Witness ==
    /\ AbsentNotRequired
    /\ kind = "HeaderValidator"
    /\ ctor.default = PyStr("v1")
    /\ ctor.validator = FnTrue
    /\ out.value = PyStr("")

CookiePresent == CookieCalled /\ req.value # PyNone

CookieViolates(name) ==
    CookieAssert_check(self, name, req.value,
                       CookieAssert_validate_numeric(self, req.value).ret).raised

CookieCodeOrder == <<"numeric", "comparison", "length", "pattern", "custom">>

CookieDetailOf(name) ==
    CASE name = "numeric" -> StrOf(self.err_numeric)
      [] name = "comparison" -> StrOf(self.err_compare)
      [] name = "length" -> StrOf(self.err_length)
      [] name = "pattern" -> StrOf(self.err_pattern)
      [] name = "custom" -> StrOf(self.err_validator)

PathHeaderOrder == <<"allowed_values", "pattern", "length", "numeric_bounds", "custom">>

PathHeaderCalled ==
    /\ Called
    /\ \/ kind = "PathValidator"
       \/ kind = "HeaderValidator" /\ ~HeaderIsAbsent(req.value)

\* the result of one rule of the instance on the value under validation; a
\* HeaderValidator has no length and no numeric rule
RuleResult(name) ==
    IF kind = "PathValidator" THEN PathValidator_check(self, name, req.value)
    ELSE IF name \in {"length", "numeric_bounds"} THEN Passed
    ELSE HeaderValidator_check(self, name, req.value)

\* C7: in PathValidator._validate and HeaderValidator._validate the rules
\* run in the order allowed-values, pattern, length, numeric bounds, custom
\* predicate and stop at the first failure: the detail reported is that of the
\* earliest violated rule, and the custom predicate is called exactly once
\* when every earlier rule passes and never otherwise
C7_RuleOrder ==
    PathHeaderCalled
        => /\ \A i \in 1..Len(PathHeaderOrder) :
                 (/\ RuleResult(PathHeaderOrder[i]).raised
                  /\ \A j \in 1..(i - 1) : ~RuleResult(PathHeaderOrder[j]).raised)
                    => /\ out.exc = "HTTPException"
                       /\ out.detail = StrOf(RuleResult(PathHeaderOrder[i]).detail)
           /\ out.spy = IF /\ ctor.validator # NoFn
                           /\ \A j \in 1..(Len(PathHeaderOrder) - 1) :
                                 ~RuleResult(PathHeaderOrder[j]).raised
                        THEN 1 ELSE 0

C7_Witness ==
    /\ PathHeaderCalled
    /\ kind = "PathValidator"
    /\ ctor.validator = FnFalse
    /\ ~RuleResult("allowed_values").raised
    /\ RuleResult("pattern").raised
    /\ RuleResult("length").raised
    /\ out.spy = 0
    /\ out.detail = StrOf(RuleResult("pattern").detail)

\* C8: in PathValidator and HeaderValidator a predicate that returns a falsy
\* value fails with status 400 and a detail beginning 'Custom validation
\* failed', one that raises fails with status 400 and detail 'Custom
\* validation error: <exception text>'
C8_FalsyAndRaisingPredicateDiffer ==
    (PathHeaderCalled /\ out.spy = 1 /\ ctor.validator.beh \in {"false", "raise"})
        => /\ out.exc = "HTTPException"
           /\ out.status = 400
           /\ ctor.validator.beh = "false"
                 => StartsWith(out.detail, "Custom validation failed")
           /\ ctor.validator.beh = "raise"
                 => out.detail = "Custom validation error: " \o ctor.validator.text

\* C9: in CookieAssert a custom validator that returns False fails with
\* status 400 and detail exactly on_validator_error_detail, one that raises
\* fails with status 400 and detail '<on_validator_error_detail>: <text>'
C9_CookieCustomDetail ==
    (CookiePresent /\ out.spy = 1 /\ ctor.validator.beh \in {"false", "raise"})
        => /\ out.exc = "HTTPException"
           /\ out.status = 400
           /\ ctor.validator.beh = "false"
                 => out.detail = StrOf(self.err_validator)
           /\ ctor.validator.beh = "raise"
                 => out.detail = StrOf(self.err_validator) \o ": "
                                 \o ctor.validator.text

CookieHasNumericRule == \E b \in {ctor.gt, ctor.ge, ctor.lt, ctor.le} : b # PyNone

\* the number x violates one of the configured bounds
CookieBoundViolated(x) ==
    \/ ctor.gt # PyNone /\ x <= ctor.gt.n
    \/ ctor.ge # PyNone /\ x < ctor.ge.n
    \/ ctor.lt # PyNone /\ x >= ctor.lt.n
    \/ ctor.le # PyNone /\ x > ctor.le.n

\* C10: in CookieAssert with a numeric rule, a text that is not a number
\* fails with 400 and on_numeric_error_detail (not the comparison message), a
\* number violating a bound fails with 400 and on_comparison_error_detail, a
\* number passing every rule is returned as the number; with no numeric rule
\* the original string is returned
C10_CookieNumeric ==
    CookiePresent
        => /\ (CookieHasNumericRule /\ ~FloatParses(req.value.s))
                 => /\ out.exc = "HTTPException"
                    /\ out.status = 400
                    /\ out.detail = StrOf(ArgOr(ctor.on_numeric_error_detail,
                                            PyStr("Cookie value must be a number.")))
                    /\ out.detail # StrOf(self.err_compare)
           /\ (CookieHasNumericRule /\ FloatParses(req.value.s)
                 /\ CookieBoundViolated(FloatOf(req.value.s)))
                 => /\ out.exc = "HTTPException"
                    /\ out.status = 400
                    /\ out.detail = StrOf(ArgOr(ctor.on_comparison_error_detail,
                                            PyStr("Cookie value fails comparison rules.")))
           /\ (CookieHasNumericRule /\ out.exc = "")
                 => out.value = PyFloat(FloatOf(req.value.s))
           /\ (~CookieHasNumericRule /\ out.exc = "")
                 => out.value = req.value

C10_Witness ==
    /\ CookiePresent
    /\ CookieHasNumericRule
    /\ ctor.validator = FnTrue
    /\ req.value = PyStr("33")
    /\ out.exc = ""
    /\ out.value = PyFloat(33)


\* the number x violates a configured bound, by the boundary law: gt and lt
\* are strict, ge and le are inclusive
BoundViolated(x) ==
    \/ ctor.gt # PyNone /\ ~(x > ctor.gt.n)
    \/ ctor.lt # PyNone /\ ~(x < ctor.lt.n)
    \/ ctor.ge # PyNone /\ ~(x >= ctor.ge.n)
    \/ ctor.le # PyNone /\ ~(x <= ctor.le.n)

\* C11: for the numeric bounds of PathValidator and CookieAssert, a value
\* equal to a ge or le bound passes it, a value equal to a gt or lt bound fails
\* it, a value strictly inside passes and a value strictly outside fails: the
\* bounds check rejects a number exactly when it violates that law
C11_BoundaryLaw ==
    /\ (kind = "PathValidator" /\ Called /\ IsNumber(req.value))
          => /\ PathValidator_validate_numeric_bounds(self, req.value).raised
                    <=> BoundViolated(req.value.n)
             /\ (BoundViolated(req.value.n) /\ ~RuleResult("allowed_values").raised)
                   => /\ out.exc = "HTTPException"
                      /\ out.status = 400
                      /\ Last(out.trace) = "numeric_bounds"
             /\ ~BoundViolated(req.value.n) => Last(out.trace) # "numeric_bounds"
    /\ (CookiePresent /\ FloatParses(req.value.s))
          => /\ BoundViolated(FloatOf(req.value.s))
                   => /\ out.exc = "HTTPException"
                      /\ out.status = 400
                      /\ Last(out.trace) = "comparison"
             /\ ~BoundViolated(FloatOf(req.value.s)) => Last(out.trace) # "comparison"

C11_Witness ==
    /\ kind = "PathValidator"
    /\ Called
    /\ req.value = PyInt(3)
    /\ ctor.ge = PyInt(3)
    /\ ctor.le = PyInt(3)
    /\ ctor.gt = PyNone
    /\ ctor.lt = PyNone
    /\ out.exc = ""
    /\ out.value = PyInt(3)


\* the compiled pattern of the instance under call
PatternOf ==
    IF kind = "CookieAssert" THEN self.final_regex
    ELSE IF kind = "PathValidator" THEN self.pattern
    ELSE self.rules.pattern

PatternCalled ==
    /\ Called
    /\ \/ CookiePresent
       \/ kind = "PathValidator" /\ req.value.t = "str"
       \/ kind = "HeaderValidator" /\ ~HeaderIsAbsent(req.value)
    /\ PatternOf # NoRegex

\* C12: for PathValidator, HeaderValidator and CookieAssert with a pattern
\* configured, a value in which the pattern matches only at a position after
\* the start of the string is rejected, and a value in which it matches at the
\* start is not rejected by the pattern rule
C12_PrefixAnchoredMatch ==
    PatternCalled
        => /\ (ReSearch(PatternOf, req.value.s) /\ ~ReMatch(PatternOf, req.value.s))
                 => out.exc = "HTTPException"
           /\ ReMatch(PatternOf, req.value.s)
                 => ~(out.exc # "" /\ Last(out.trace) = "pattern")


RequiredEmptyCalled ==
    /\ Called
    /\ req.value = PyStr("")
    /\ \/ kind = "HeaderValidator" /\ Truthy(self.required)
       \/ CookieCalled /\ self.is_required

\* C13: for HeaderValidator and CookieAssert with requiredness in force, a
\* raw value that is the empty string is treated like an absent value: the call
\* fails at the required check with status 400 and the required message, and
\* no other rule is evaluated
C13_EmptyIsAbsent ==
    RequiredEmptyCalled
        => /\ out.exc = "HTTPException"
           /\ out.status = 400
           /\ out.detail = (IF kind = "CookieAssert" THEN StrOf(self.err_required)
                            ELSE "Required header is missing.")
           /\ out.trace = <<"required">>
           /\ out.spy = 0


\* C14: BaseValidator._raise_error always raises HTTPException; the status
\* is the status_code argument when it is not None and the instance's status
\* code otherwise; the detail comes from the detail argument when it is truthy
\* and from the instance's error_detail otherwise; a callable detail source is
\* applied to the failing value
C14_RaiseErrorResolution ==
    (kind = "BaseValidator" /\ Called)
        => LET inst_status == ArgOr(ctor.status_code, PyInt(400))
               inst_detail == ArgOr(ctor.error_detail, PyStr("Validation failed."))
               source == IF req.detail = PyNone \/ req.detail = PyStr("")
                         THEN inst_detail ELSE req.detail
           IN /\ out.exc = "HTTPException"
              /\ out.status = (IF req.status_code # PyNone THEN req.status_code.n
                               ELSE inst_status.n)
              /\ out.detail = (IF source.t = "callable"
                               THEN source.s \o StrOf(req.value)
                               ELSE source.s)

C14_Witness ==
    /\ kind = "BaseValidator"
    /\ Called
    /\ req.detail = PyStr("")
    /\ req.status_code = PyNone
    /\ ctor.error_detail = PyCallable("The value is invalid: ")
    /\ req.value = PyStr("bad_input")
    /\ out.status = 400
    /\ out.detail = "The value is invalid: bad_input"


OnErrorDetailCalled ==
    /\ Called
    /\ \/ kind = "PathValidator"
       \/ kind = "HeaderValidatorV" /\ ~HeaderIsAbsent(req.value)
    /\ \E i \in 1..Len(PathHeaderOrder) : RuleResult(PathHeaderOrder[i]).raised

\* the earliest rule, in the order of _validate, that the value violates
FirstViolatedRule ==
    PathHeaderOrder[CHOOSE i \in 1..Len(PathHeaderOrder) :
                       /\ RuleResult(PathHeaderOrder[i]).raised
                       /\ \A j \in 1..(i - 1) : ~RuleResult(PathHeaderOrder[j]).raised]

\* C15: when a PathValidator (or the validators-package HeaderValidator) was
\* constructed with on_error_detail and a rule fails, the HTTP error detail is
\* the configured on_error_detail; the built-in text of the rule is used only
\* when no on_error_detail was configured
C15_OnErrorDetailOverrides ==
    OnErrorDetailCalled
        => /\ out.exc = "HTTPException"
           /\ out.detail = (IF ctor.on_error_detail # Unset
                            THEN StrOf(ctor.on_error_detail)
                            ELSE StrOf(RuleResult(FirstViolatedRule).detail))


\* a validation rule of the instance rejected the value under call
RuleFailedCalled ==
    /\ Called
    /\ out.exc # ""
    /\ \/ /\ kind = "HeaderValidator"
          /\ ~HeaderIsAbsent(req.value)
          /\ Last(out.trace) \in {"allowed_values", "pattern", "custom"}
       \/ /\ CookiePresent
          /\ Last(out.trace) \in {"comparison", "length", "pattern", "custom"}

\* C16: a HeaderValidator or CookieAssert constructed with status_code = S
\* raises HTTPException with status S whenever one of its validation rules
\* (allowed values, pattern, length, comparison, custom predicate) fails
C16_ConfiguredStatusCode ==
    (RuleFailedCalled /\ ctor.status_code # Unset)
        => /\ out.exc = "HTTPException"
           /\ out.status = ctor.status_code.n


\* C17: a CookieAssert constructed with an empty alias exists, and every
\* call of it raises HTTPException with status 500 and the
\* alias-misconfiguration message, before the cookies of the request are read
\* and before any rule is evaluated
C17_EmptyAliasIs500 ==
    (kind = "CookieAssert" /\ Called /\ ctor.alias = "")
        => /\ out.exc = "HTTPException"
           /\ out.status = 500
           /\ StartsWith(out.detail, "Internal Server Error: ")
           /\ out.detail = AliasMessage
           /\ out.trace = <<>>
           /\ out.spy = 0

C17_Witness ==
    /\ kind = "CookieAssert"
    /\ Called
    /\ ctor.alias = ""
    /\ req.fault = "Unexpected crash!"
    /\ out.exc = "HTTPException"
    /\ out.status = 500

\* C18: when reading the cookies of the request raises an arbitrary
\* exception, CookieAssert.__call__ raises HTTPException with status 500 and a
\* detail containing 'An unexpected error'; the original exception does not
\* reach the caller
C18_CookiesFaultIs500 ==
    (kind = "CookieAssert" /\ Called /\ self.alias # "" /\ req.fault # "")
        => /\ out.exc = "HTTPException"
           /\ out.status = 500
           /\ StartsWith(out.detail, "An unexpected error")


\* an exception that is not a rule failure occurs during the call: reading
\* an attribute of the upload raises, or (ImageValidator) opening the image
\* raises something other than a decode failure
UnexpectedErrorCalled ==
    /\ Called
    /\ kind \in {"FileValidator", "ImageValidator"}
    /\ LET e == FileFirstFailure(self, req)
       IN \/ e.raised /\ e.type # "ValidationError"
          \/ /\ kind = "ImageValidator"
             /\ ~e.raised
             /\ ImageValidator_checks(self, req).raised
             /\ ImageValidator_checks(self, req).type = "Exception"

\* C19: in FileValidator and ImageValidator an exception that is not a rule
\* failure is reported to the caller as HTTPException with status 500 and a
\* generic unexpected-error message
C19_UnexpectedErrorIs500 ==
    UnexpectedErrorCalled
        => /\ out.exc = "HTTPException"
           /\ out.status = 500
           /\ StartsWith(out.detail, "An unexpected error occurred")


\* texts an internal exception may carry
FaultTexts == {"Unexpected crash!", "boom"}

\* the call under way rerun with the text of the internal exception replaced
\* by t, everything else equal
RerunWithText(t) ==
    CASE kind = "CookieAssert" -> CookieAssert_call(self, [req EXCEPT !.fault = t])
      [] kind = "FileValidator" -> FileValidator_call(self, [req EXCEPT !.fault = t])
      [] kind = "ImageValidator" ->
            ImageValidator_call(self,
                [req EXCEPT !.fault = IF @ # "" THEN t ELSE @,
                            !.image.text = IF req.image.open = "fault" THEN t ELSE @])

\* C20: the error raised for an unexpected exception (neither a rule failure
\* nor raised by the custom predicate) carries a fixed generic detail with
\* none of the exception's text: two runs that differ only in the text of the
\* internal exception produce the same status and detail
C20_NoInternalTextLeak ==
    (\/ kind = "CookieAssert" /\ Called /\ self.alias # "" /\ req.fault # ""
     \/ UnexpectedErrorCalled)
        => \A t \in FaultTexts :
              /\ RerunWithText(t).status = out.status
              /\ RerunWithText(t).detail = out.detail


\* the stream after the operations ops were made on an upload holding chunks:
\* pos is the number of bytes read past, closed whether close was called
RECURSIVE StreamAfter(_, _, _)
StreamAfter(ops, chunks, st) ==
    IF Len(ops) = 0 THEN st
    ELSE LET op == Head(ops)
             nxt == IF op = "seek" THEN [st EXCEPT !.pos = 0, !.left = chunks]
                    ELSE IF op = "close" THEN [st EXCEPT !.closed = TRUE]
                    ELSE IF Len(st.left) = 0 THEN st
                    ELSE [st EXCEPT !.pos = st.pos + Head(st.left),
                                    !.left = Tail(st.left)]
         IN StreamAfter(Tail(ops), chunks, nxt)

StreamAtReturn == StreamAfter(out.trace, req.chunks,
                              [pos |-> 0, left |-> req.chunks, closed |-> FALSE])

CountOps(ops, op) == Cardinality({i \in 1..Len(ops) : ops[i] = op})

FileSucceeded == kind = "FileValidator" /\ Called /\ out.exc = ""

\* C21: when FileValidator.__call__ succeeds it returns the upload it was
\* given, seek(0) is performed exactly once, after every read of the size
\* check and as the last stream operation, and the stream position is 0 when
\* control returns
C21_SuccessRewindsOnce ==
    FileSucceeded
        => /\ out.value = FileObject
           /\ CountOps(out.trace, "seek") = 1
           /\ Last(out.trace) = "seek"
           /\ \A i \in 1..(Len(out.trace) - 1) : out.trace[i] = "read"
           /\ StreamAtReturn.pos = 0
           /\ ~StreamAtReturn.closed

\* a successful call that streamed the upload to count its bytes
C21_Witness ==
    /\ FileSucceeded
    /\ CountOps(out.trace, "read") >= 2
    /\ Last(out.trace) = "seek"


\* a check of FileValidator.__call__ raised something other than a
\* ValidationError
FileUnexpected ==
    /\ kind = "FileValidator"
    /\ Called
    /\ FileFirstFailure(self, req).raised
    /\ FileFirstFailure(self, req).type # "ValidationError"

\* C22: when a check inside FileValidator.__call__ raises an exception that is
\* not a ValidationError, the file is closed exactly once and seek is never
\* called on it before the error reaches the caller
C22_UnexpectedClosesNoSeek ==
    FileUnexpected
        => /\ out.exc # ""
           /\ CountOps(out.trace, "close") = 1
           /\ CountOps(out.trace, "seek") = 0
           /\ StreamAtReturn.closed

\* reading content_type raised while the content-type rule was configured
C22_Witness ==
    /\ FileUnexpected
    /\ req.fault = "Unexpected crash!"
    /\ Last(out.trace) = "close"


\* C23: on every exit path of FileValidator.__call__ (success, rule failure,
\* unexpected error) the upload stream has been closed or is back at position
\* 0 when control returns to the caller
C23_StreamReleasedOnEveryExit ==
    (kind = "FileValidator" /\ Called)
        => (StreamAtReturn.closed \/ StreamAtReturn.pos = 0)


\* the size check of FileValidator.__call__ was reached: the content-type and
\* filename checks passed
SizeCheckReached ==
    /\ kind = "FileValidator"
    /\ Called
    /\ ~FileValidator_validate_content_type(self, req).raised
    /\ ~FileValidator_validate_filename(self, req).raised

SizeRuleConfigured == self.max_size # PyNone \/ self.min_size # PyNone

\* the outcome of the size rule on a size known without reading
DeclaredSizeOutcome(size) ==
    IF self.max_size # PyNone /\ size > self.max_size.n THEN 413
    ELSE IF self.min_size # PyNone /\ size < self.min_size.n THEN 400
    ELSE 0

\* C24: _validate_size never reads the stream when no size rule is configured;
\* with a rule and a declared size it checks the bounds against the declared
\* size and never reads; it reads the stream only when a rule is configured
\* and the declared size is absent
C24_ReadsOnlyWhenUndeclared ==
    SizeCheckReached
        => LET sz == FileValidator_validate_size(self, req)
           IN /\ CountOps(out.trace, "read") = sz.reads
              /\ ~SizeRuleConfigured => (sz.reads = 0 /\ ~sz.res.raised)
              /\ (SizeRuleConfigured /\ req.size # PyNone)
                    => /\ sz.reads = 0
                       /\ sz.res.raised = (DeclaredSizeOutcome(req.size.n) # 0)
                       /\ sz.res.raised
                             => sz.res.status_code.n = DeclaredSizeOutcome(req.size.n)
              /\ (sz.reads > 0) <=> (SizeRuleConfigured /\ req.size = PyNone)

\* a declared size over the maximum is rejected without a read
C24_Witness ==
    /\ SizeCheckReached
    /\ SizeRuleConfigured
    /\ req.size # PyNone
    /\ req.size.n > SumSeq(req.chunks)
    /\ FileValidator_validate_size(self, req).res.raised
    /\ CountOps(out.trace, "read") = 0


\* the size check streamed the upload: a size rule is configured and the
\* declared size is absent
Streamed == SizeCheckReached /\ SizeRuleConfigured /\ req.size = PyNone

\* the bytes held by the first k chunks of the stream
RunningCount(k) == SumSeq(SubSeq(req.chunks, 1, k))

\* the reads after which the running count exceeds max_size
OverAt ==
    {k \in 1..Len(req.chunks) :
        self.max_size # PyNone /\ RunningCount(k) > self.max_size.n}

InstanceOf(k, a) ==
    CASE k = "CookieAssert" -> CookieAssert_init(a)
      [] k = "HeaderValidator" -> HeaderValidator_init(a)
      [] k = "HeaderValidatorV" -> HeaderValidatorV_init(a)
      [] k = "PathValidator" -> PathValidator_init(a)
      [] k = "FileValidator" -> FileValidator_init(a)
      [] k = "ImageValidator" -> ImageValidator_init(a)
      [] k = "BaseValidator" -> BaseValidator_init(a)

\* what an invocation of instance slf on request r hands to the caller
OutcomeOf(k, slf, r) ==
    CASE k = "CookieAssert" -> CookieAssert_call(slf, r)
      [] k = "HeaderValidator" -> HeaderValidator_validate(slf, r.value)
      [] k = "HeaderValidatorV" -> HeaderValidatorV_validate(slf, r.value)
      [] k = "PathValidator" -> PathValidator_validate(slf, r.value)
      [] k = "FileValidator" -> FileValidator_call(slf, r)
      [] k = "ImageValidator" -> ImageValidator_call(slf, r)
      [] k = "BaseValidator" ->
            LET h == Core_raise_error(slf, r.value, r.status_code, r.detail)
            IN Raised(h.exc, h.status, h.detail, <<>>, 0)

\* the upload of the current request as the call left its stream
UploadAsLeft == [req EXCEPT !.chunks = StreamAtReturn.left]

C26_Frame == [][self' = self /\ ctor' = ctor /\ kind' = kind]_vars

NoRuleArguments ==
    CASE kind = "CookieAssert" ->
            /\ self.gt = PyNone /\ self.ge = PyNone
            /\ self.lt = PyNone /\ self.le = PyNone
            /\ self.min_length = PyNone /\ self.max_length = PyNone
            /\ self.final_regex = NoRegex
            /\ self.custom_validator = NoFn
      [] kind \in HeaderKinds ->
            /\ self.rules.allowed_values = <<>>
            /\ self.rules.pattern = NoRegex
            /\ self.rules.custom_validator = NoFn
      [] kind = "PathValidator" ->
            /\ self.allowed_values = <<>>
            /\ self.pattern = NoRegex
            /\ self.min_length = PyNone /\ self.max_length = PyNone
            /\ self.gt = PyNone /\ self.ge = PyNone
            /\ self.lt = PyNone /\ self.le = PyNone
            /\ self.custom_validator = NoFn
      [] OTHER -> FALSE

\* a value was handed to the validator: the cookie is in the request, the
\* header is neither missing nor empty, the path parameter is whatever the
\* route matched
ValueGiven ==
    CASE kind = "CookieAssert" -> CookiePresent
      [] kind \in HeaderKinds -> Called /\ ~HeaderIsAbsent(req.value)
      [] kind = "PathValidator" -> Called
      [] OTHER -> FALSE

BoundOrder == <<"gt", "lt", "ge", "le">>

\* the number x violates the bound called name of the instance
ViolatesBound(name, x) ==
    /\ self[name] # PyNone
    /\ CASE name = "gt" -> ~(x > self.gt.n)
         [] name = "lt" -> ~(x < self.lt.n)
         [] name = "ge" -> ~(x >= self.ge.n)
         [] name = "le" -> ~(x <= self.le.n)

BoundDetail(name) ==
    CASE name = "gt" -> "Value must be greater than " \o StrOf(self.gt)
      [] name = "lt" -> "Value must be less than " \o StrOf(self.lt)
      [] name = "ge" -> "Value must be greater than or equal to " \o StrOf(self.ge)
      [] name = "le" -> "Value must be less than or equal to " \o StrOf(self.le)

\* PathValidator._validate_numeric_bounds rejected the number of the request
NumericBoundsFailed ==
    /\ kind = "PathValidator"
    /\ Called
    /\ IsNumber(req.value)
    /\ Last(out.trace) = "numeric_bounds"
    /\ out.exc = "HTTPException"

\* C29: PathValidator._validate_numeric_bounds tests its bounds in the order
\* gt, lt, ge, le and the first violated one gives the detail: a number
\* violating gt and ge reports 'Value must be greater than <gt>', one
\* violating lt and le reports 'Value must be less than <lt>'
C29_BoundOrder ==
    NumericBoundsFailed
        => LET x == req.value.n
           IN /\ \E i \in 1..Len(BoundOrder) :
                    /\ ViolatesBound(BoundOrder[i], x)
                    /\ \A j \in 1..(i - 1) : ~ViolatesBound(BoundOrder[j], x)
                    /\ out.detail = BoundDetail(BoundOrder[i])
              /\ (ViolatesBound("gt", x) /\ ViolatesBound("ge", x))
                    => out.detail = "Value must be greater than " \o StrOf(self.gt)
              /\ (ViolatesBound("lt", x) /\ ViolatesBound("le", x) /\ ~ViolatesBound("gt", x))
                    => out.detail = "Value must be less than " \o StrOf(self.lt)

\* a number below both the gt and the ge bound was rejected
C29_Witness ==
    /\ NumericBoundsFailed
    /\ ViolatesBound("gt", req.value.n)
    /\ ViolatesBound("ge", req.value.n)
    /\ out.detail = "Value must be greater than 3"


\* the parent checks passed and the image checks of ImageValidator.__call__
\* ran
ImageChecksRan ==
    /\ kind = "ImageValidator"
    /\ Called
    /\ FileValidator_call(self, req).exc = ""

\* an exception that is neither a rule failure nor a decode failure occurred
\* in the image checks
ImageUnexpected ==
    /\ ImageChecksRan
    /\ ImageValidator_checks(self, req).raised
    /\ ImageValidator_checks(self, req).type = "Exception"

SeekAfterClose ==
    \E i, j \in 1..Len(out.trace) :
        i < j /\ out.trace[i] = "close" /\ out.trace[j] = "seek"

\* the success, rule-failure and decode-failure paths leave the stream
\* rewound and open
ImageRewoundOtherwise ==
    (ImageChecksRan /\ ~ImageUnexpected)
        => /\ Last(out.trace) = "seek"
           /\ StreamAtReturn.pos = 0
           /\ ~StreamAtReturn.closed

\* C30: in ImageValidator.__call__ an unexpected exception during the image
\* checks closes the file and no seek is performed on it after the close; on
\* the success, rule-failure and decode-failure paths the stream is rewound to
\* position 0 and not closed
C30_ImageStreamDiscipline ==
    /\ ImageUnexpected
          => /\ CountOps(out.trace, "close") = 1
             /\ ~SeekAfterClose
    /\ ImageRewoundOtherwise


-----------------------------------------------------------------------------
(* Two concurrent invocations of one FileValidator                          *)
(* Under SpecConc req is the pair of uploads and out holds, per invocation, *)
(* the position of the coroutine and, per upload, the state of its stream.  *)
(* A coroutine runs without interruption between two awaits; the awaits of  *)
(* FileValidator.__call__ are the reads of the size check, file.seek(0) and *)
(* file.close().                                                            *)

Invocations == {1, 2}

ConcArgs ==
    {a \in FileArgs :
        /\ a.max_size \in {PyNone, PyInt(3)}
        /\ a.content_types \in {<<>>, <<"text/plain">>}
        /\ a.filename_pattern = NoRegex
        /\ a.on_size_error_detail = Unset}

ConcUploads ==
    {r \in FileRequests :
        /\ r.content_type = PyStr("text/plain")
        /\ r.filename = PyStr("a3")
        /\ r.size \in {PyNone, PyInt(SumSeq(r.chunks))}}

\* the upload is kept on the instance by the first invocation and used by
\* every invocation
FileOf_KeptOnInstance(i) == 1

\* the stream an invocation works on: `file` is a parameter of __call__, a
\* local of the invocation bound to its own upload
FileOf(i) == i

NewStream(u) == [left |-> u.chunks, pos |-> 0, closed |-> FALSE, ops |-> <<>>, by |-> {}]

NewInvocation == [pc |-> "start", count |-> 0, trace |-> <<>>, result |-> NoCall]

InitConc ==
    /\ kind = "FileValidator"
    /\ ctor \in ConcArgs
    /\ self = FileValidator_init(ctor)
    /\ req \in [Invocations -> ConcUploads]
    /\ out = [inv |-> [i \in Invocations |-> NewInvocation],
              stream |-> [i \in Invocations |-> NewStream(req[i])]]

\* the invocation ends by raising what _raise_error makes of a rule failure
RuleFailureResult(e, trace) ==
    LET h == Core_raise_error(self, Unset, e.status_code, PyStr(StrOf(e.detail)))
    IN Raised(h.exc, h.status, h.detail, trace, 0)

\* one operation of invocation i on stream f
Touch(f, i, op, st) ==
    [st EXCEPT !.ops = Append(@, op), !.by = @ \cup {i}]

\* from the call to the first await: the content-type and filename checks and
\* the head of _validate_size
CallStart(i) ==
    /\ out.inv[i].pc = "start"
    /\ LET u == req[FileOf(i)]
           ct == FileValidator_validate_content_type(self, u)
           fn == FileValidator_validate_filename(self, u)
           e == IF ct.raised THEN ct ELSE fn
           declared == CheckSizeBounds(self, u.size.n)
       IN out' =
            IF e.raised /\ e.type = "ValidationError"
            THEN [out EXCEPT !.inv[i].pc = "done",
                             !.inv[i].result = RuleFailureResult(e, <<>>)]
            ELSE IF e.raised
            THEN [out EXCEPT !.inv[i].pc = "close"]
            ELSE IF self.max_size = PyNone /\ self.min_size = PyNone
            THEN [out EXCEPT !.inv[i].pc = "seek"]
            ELSE IF u.size = PyNone
            THEN [out EXCEPT !.inv[i].pc = "read"]
            ELSE IF declared.raised
            THEN [out EXCEPT !.inv[i].pc = "done",
                             !.inv[i].result = RuleFailureResult(declared, <<>>)]
            ELSE [out EXCEPT !.inv[i].pc = "seek"]
    /\ UNCHANGED <<kind, ctor, self, req>>

\* one awaited read of the size check and what follows it up to the next
\* await; reading a closed file raises ValueError, an unexpected error
CallRead(i) ==
    /\ out.inv[i].pc = "read"
    /\ LET f == FileOf(i)
           st == out.stream[f]
           inv == out.inv[i]
           trace == Append(inv.trace, "read")
           eof == Len(st.left) = 0
           running == IF eof THEN inv.count ELSE inv.count + Head(st.left)
           after == IF eof THEN Touch(f, i, "read", st)
                    ELSE Touch(f, i, "read",
                               [st EXCEPT !.left = Tail(@), !.pos = @ + Head(st.left)])
           bounds == CheckSizeBounds(self, running)
       IN out' =
            IF st.closed
            THEN [out EXCEPT !.inv[i].pc = "close", !.inv[i].trace = trace,
                             !.stream[f] = Touch(f, i, "read", st)]
            ELSE IF eof
            THEN IF bounds.raised
                 THEN [out EXCEPT !.inv[i].pc = "done", !.inv[i].trace = trace,
                                  !.inv[i].result = RuleFailureResult(bounds, trace),
                                  !.stream[f] = after]
                 ELSE [out EXCEPT !.inv[i].pc = "seek", !.inv[i].trace = trace,
                                  !.stream[f] = after]
            ELSE IF self.max_size # PyNone /\ running > self.max_size.n
            THEN [out EXCEPT !.inv[i].pc = "done", !.inv[i].trace = trace,
                             !.inv[i].result = RuleFailureResult(bounds, trace),
                             !.stream[f] = after]
            ELSE [out EXCEPT !.inv[i].count = running, !.inv[i].trace = trace,
                             !.stream[f] = after]
    /\ UNCHANGED <<kind, ctor, self, req>>

\* await file.seek(0); return file
CallSeek(i) ==
    /\ out.inv[i].pc = "seek"
    /\ LET f == FileOf(i)
           trace == Append(out.inv[i].trace, "seek")
       IN out' = [out EXCEPT
                    !.inv[i].pc = "done", !.inv[i].trace = trace,
                    !.inv[i].result = Returned(FileObject, trace, 0),
                    !.stream[f] = Touch(f, i, "seek",
                                        [@ EXCEPT !.left = req[f].chunks, !.pos = 0])]
    /\ UNCHANGED <<kind, ctor, self, req>>

\* await file.close(), then the _raise_error call of the except branch
CallClose(i) ==
    /\ out.inv[i].pc = "close"
    /\ LET f == FileOf(i)
           trace == Append(out.inv[i].trace, "close")
           h == Core_raise_error(self, Unset, PyInt(400),
                    PyStr("An unexpected error occurred during file validation."))
       IN out' = [out EXCEPT
                    !.inv[i].pc = "done", !.inv[i].trace = trace,
                    !.inv[i].result = Raised(h.exc, h.status, h.detail, trace, 0),
                    !.stream[f] = Touch(f, i, "close", [@ EXCEPT !.closed = TRUE])]
    /\ UNCHANGED <<kind, ctor, self, req>>

NextConc ==
    \E i \in Invocations : CallStart(i) \/ CallRead(i) \/ CallSeek(i) \/ CallClose(i)

SpecConc == InitConc /\ [][NextConc]_vars

\* C27: in every interleaving of two concurrent invocations of one
\* FileValidator on two uploads, each invocation reads, rewinds or closes only
\* its own stream and ends with the outcome it has when run alone
C27_ConcurrentInvocationsIndependent ==
    \A i \in Invocations :
        /\ out.stream[i].by \subseteq {i}
        /\ out.stream[i].ops = out.inv[i].trace
        /\ out.inv[i].pc = "done"
              => out.inv[i].result = FileValidator_call(self, req[i])

\* invocation 1 has streamed its upload and returned while invocation 2 is
\* suspended in the middle of its own stream
C27_Witness ==
    /\ out.inv[1].pc = "done"
    /\ out.inv[1].result.exc = ""
    /\ CountOps(out.inv[1].trace, "read") >= 2
    /\ out.inv[2].pc = "read"
    /\ out.inv[2].count > 0
    /\ out.stream[2].pos > 0

====
